---- MODULE Spec2Model ----
(***************************************************************************)
(* Model of the product-scout pipeline: the scrape orchestrator            *)
(* (src/scraper.py), the two ranking strategies (src/ranker.py), the       *)
(* digest formatter/sender (src/alibaba-scout/src/notifier.py) and the run *)
(* controller (src/alibaba-scout/main.py).                                 *)
(*                                                                         *)
(* Strings are modelled exactly, as sequences of runs: a run [u, n] is the *)
(* character sequence u repeated n times, a character is a one-code-point  *)
(* string (non-ASCII code points are spelled by name).  len(), slicing,    *)
(* str.replace and concatenation are computed on that encoding.            *)
(***************************************************************************)
EXTENDS Integers, Sequences, FiniteSets, TLC

VARIABLES
    \* rank_products_fallback applied to an input
    fb_products, fb_top_n, fb_pc, fb_out,
    \* rank_products applied to an input and a ranking-service response
    llm_products, llm_top_n, llm_resp, llm_pc, llm_result,
    \* scrape_all_categories: the categories given, the position in the
    \* submission loop, the coroutines/tasks, the shared client, the merged
    \* and the returned sequence
    sc_cats, sc_pc, sc_cat, sc_selected, sc_tasks, sc_client, sc_all, sc_unique, sc_raised,
    \* send_daily_digest: the call, the buffers it builds, how many of them
    \* were handed to _send_message, the POSTs made, what each _send_message
    \* returned and what the call returned
    dg_products, dg_label, dg_pc, dg_msgs, dg_sent, dg_posts, dg_results, dg_ret,
    \* which of send_daily_digest and send_error_alert is called, and the
    \* error message of the alert
    dg_fn, dg_error,
    \* run: the configuration, the arguments, the position, the scraped
    \* listings, top_products, the calls made and how the run ended
    run_cfg, run_args, run_pc, run_products, run_top, run_calls, run_exit,
    \* scrape_alibaba / scrape_dhgate applied to one response: the site, the
    \* category, the response, the position and the listings returned
    ex_site, ex_category, ex_resp, ex_pc, ex_out

vars_fb == <<fb_products, fb_top_n, fb_pc, fb_out>>
vars_llm == <<llm_products, llm_top_n, llm_resp, llm_pc, llm_result>>
vars_sc == <<sc_cats, sc_pc, sc_cat, sc_selected, sc_tasks, sc_client, sc_all, sc_unique, sc_raised>>
vars_dg == <<dg_products, dg_label, dg_pc, dg_msgs, dg_sent, dg_posts, dg_results, dg_ret,
            dg_fn, dg_error>>
vars_run == <<run_cfg, run_args, run_pc, run_products, run_top, run_calls, run_exit>>
vars_ex == <<ex_site, ex_category, ex_resp, ex_pc, ex_out>>
vars == <<vars_fb, vars_llm, vars_sc, vars_dg, vars_run, vars_ex>>

\* what the actions of one part leave alone
others_fb == <<vars_llm, vars_sc, vars_dg, vars_run, vars_ex>>
others_llm == <<vars_fb, vars_sc, vars_dg, vars_run, vars_ex>>
others_sc == <<vars_fb, vars_llm, vars_dg, vars_run, vars_ex>>
others_dg == <<vars_fb, vars_llm, vars_sc, vars_run, vars_ex>>
others_run == <<vars_fb, vars_llm, vars_sc, vars_dg, vars_ex>>
others_ex == <<vars_fb, vars_llm, vars_sc, vars_dg, vars_run>>

(***************************************************************************)
(* Bounds of the model.                                                    *)
(***************************************************************************)
MaxProducts == 3
MaxTopN == 3
MaxResp == 3
MaxKeywords == 3
MaxListings == 3
MaxDigest == 2
MaxText == 2

(***************************************************************************)
(* Generic helpers.                                                        *)
(***************************************************************************)
Max(a, b) == IF a >= b THEN a ELSE b

Range(s) == {s[i] : i \in 1..Len(s)}

SeqsUpTo(S, n) == UNION {[1..k -> S] : k \in 0..n}

\* the sum of s[lo..hi], by halves
RECURSIVE SumRange(_, _, _)
SumRange(s, lo, hi) ==
    IF lo > hi THEN 0
    ELSE IF lo = hi THEN s[lo]
    ELSE LET mid == (lo + hi) \div 2
         IN SumRange(s, lo, mid) + SumRange(s, mid + 1, hi)

SumSeq(s) == SumRange(s, 1, Len(s))

RECURSIVE Flatten(_)
Flatten(ss) == IF ss = <<>> THEN <<>> ELSE Head(ss) \o Flatten(Tail(ss))

(***************************************************************************)
(* Strings.                                                                *)
(***************************************************************************)
Empty == <<>>

\* a string literal, given by its characters
Lit(chars) == IF chars = <<>> THEN <<>> ELSE <<[u |-> chars, n |-> 1]>>

\* the character c repeated n times ('c' * n)
Rep(c, n) == IF n = 0 THEN <<>> ELSE <<[u |-> <<c>>, n |-> n]>>

\* len(text)
TLen(t) == SumSeq([i \in 1..Len(t) |-> Len(t[i].u) * t[i].n])

\* bool(text): a string is truthy when it is not empty
Truthy(t) == TLen(t) > 0

\* u * n on a sequence of characters
RepeatSeq(u, n) == [k \in 1..(Len(u) * n) |-> u[((k - 1) % Len(u)) + 1]]

\* the characters of a (short) text, one by one
Expand(t) == Flatten([i \in 1..Len(t) |-> RepeatSeq(t[i].u, t[i].n)])

\* a == b on strings: equal character sequences, whatever the run encoding
TEq(a, b) == TLen(a) = TLen(b) /\ (a = b \/ Expand(a) = Expand(b))

\* text[:k]
RECURSIVE Take(_, _)
Take(t, k) ==
    IF k <= 0 \/ t = <<>> THEN <<>>
    ELSE LET r == Head(t)
             w == Len(r.u) * r.n
         IN IF w <= k THEN <<r>> \o Take(Tail(t), k - w)
            ELSE LET whole == k \div Len(r.u)
                     rest == k % Len(r.u)
                 IN (IF whole = 0 THEN <<>> ELSE <<[u |-> r.u, n |-> whole]>>)
                    \o Lit(SubSeq(r.u, 1, rest))

\* str(n) for n >= 0, as characters
DigitChar(d) == <<"0", "1", "2", "3", "4", "5", "6", "7", "8", "9">>[d + 1]

RECURSIVE DigitChars(_)
DigitChars(n) == IF n < 10 THEN <<DigitChar(n)>>
                 ELSE DigitChars(n \div 10) \o <<DigitChar(n % 10)>>

Str(n) == Lit(DigitChars(n))

(***************************************************************************)
(* Product (src/scraper.py) and its to_dict().                             *)
(***************************************************************************)
SeeListing == Lit(<<"S", "e", "e", " ", "l", "i", "s", "t", "i", "n", "g">>)

Categories == {"lamps", "telescopes"}

Product(name, price, link, source, category, image_url, min_order, orders_or_reviews, supplier) ==
    [name |-> name, price |-> price, link |-> link, source |-> source,
     category |-> category, image_url |-> image_url, min_order |-> min_order,
     orders_or_reviews |-> orders_or_reviews, supplier |-> supplier]

(***************************************************************************)
(* rank_products_fallback (src/ranker.py).                                 *)
(***************************************************************************)
FallbackReason == Lit(<<"A", "u", "t", "o", "-", "s", "c", "o", "r", "e", "d",
                        " ", "(", "n", "o", " ", "A", "I", ")">>)

\* a score that counts the supplier for 10
FallbackScoreSupplierTen(p) ==
    50
    + (IF Truthy(p.price) /\ ~TEq(p.price, SeeListing) THEN 15 ELSE 0)
    + (IF Truthy(p.orders_or_reviews) THEN 20 ELSE 0)
    + (IF Truthy(p.image_url) THEN 5 ELSE 0)
    + (IF Truthy(p.min_order) THEN 5 ELSE 0)
    + (IF Truthy(p.supplier) THEN 10 ELSE 0)

\* lines 106-116: the score of one product
FallbackScore(p) ==
    50
    + (IF Truthy(p.price) /\ ~TEq(p.price, SeeListing) THEN 15 ELSE 0)
    + (IF Truthy(p.orders_or_reviews) THEN 20 ELSE 0)
    + (IF Truthy(p.image_url) THEN 5 ELSE 0)
    + (IF Truthy(p.min_order) THEN 5 ELSE 0)
    + (IF Truthy(p.supplier) THEN 5 ELSE 0)

\* line 117: {**p.to_dict(), "score": score, "reason": ...}
Scored(p) ==
    [name |-> p.name, price |-> p.price, link |-> p.link, source |-> p.source,
     category |-> p.category, image_url |-> p.image_url, min_order |-> p.min_order,
     orders_or_reviews |-> p.orders_or_reviews, supplier |-> p.supplier,
     score |-> FallbackScore(p), reason |-> FallbackReason]

\* list.sort(key=..., reverse=True) on the keys: the order of the indices.
\* The sort is stable: reverse=True keeps elements of equal key in their
\* original order.  An index is inserted after every index whose key is
\* not smaller.
RECURSIVE InsertDesc(_, _, _)
InsertDesc(order, keys, i) ==
    IF order = <<>> THEN <<i>>
    ELSE IF keys[Head(order)] >= keys[i]
         THEN <<Head(order)>> \o InsertDesc(Tail(order), keys, i)
         ELSE <<i>> \o order

RECURSIVE SortedOrderUpTo(_, _)
SortedOrderUpTo(keys, k) ==
    IF k = 0 THEN <<>> ELSE InsertDesc(SortedOrderUpTo(keys, k - 1), keys, k)

SortDescOrder(keys) == SortedOrderUpTo(keys, Len(keys))

\* no sort: the scored listings stay in input order
KeepInputOrder(s) == s

\* line 119
SortByScoreDesc(s) ==
    LET order == SortDescOrder([i \in 1..Len(s) |-> s[i].score])
    IN [i \in 1..Len(s) |-> s[order[i]]]

\* line 123
MaxPerCat(products, top_n) ==
    IF products # <<>>
    THEN Max(1, (top_n \div Cardinality({products[i].category : i \in 1..Len(products)})) + 1)
    ELSE 2

CountCat(s, cat) == Cardinality({i \in 1..Len(s) : s[i].category = cat})

\* lines 125-131: the selection loop; the test of the length follows the
\* append, so it is reached only after an item was considered
RECURSIVE SelectDiverse(_, _, _, _)
SelectDiverse(scored, diverse, max_per_cat, top_n) ==
    IF scored = <<>> THEN diverse
    ELSE LET item == Head(scored)
             d == IF CountCat(diverse, item.category) < max_per_cat
                  THEN Append(diverse, item) ELSE diverse
         IN IF Len(d) >= top_n THEN d
            ELSE SelectDiverse(Tail(scored), d, max_per_cat, top_n)

rank_products_fallback(products, top_n) ==
    LET scored == SortByScoreDesc([i \in 1..Len(products) |-> Scored(products[i])])
    IN SelectDiverse(scored, <<>>, MaxPerCat(products, top_n), top_n)

(***************************************************************************)
(* rank_products (src/ranker.py).                                          *)
(*                                                                         *)
(* A JSON value is [t, items, pairs]: t = "list" with its elements in      *)
(* items, t = "dict" with its key/value pairs, in document order, in       *)
(* pairs, or t = "scalar".  An element of a list is [id, t, score]:        *)
(* t = "int" an object with an integer score, "missing" an object with no  *)
(* score, "str" an object whose score is a string, "notdict" an element    *)
(* that is no object (it has no .get).                                     *)
(***************************************************************************)
JList(items) == [t |-> "list", items |-> items, pairs |-> <<>>]
JScalar == [t |-> "scalar", items |-> <<>>, pairs |-> <<>>]
JDict(pairs) == [t |-> "dict", items |-> <<>>, pairs |-> pairs]

KnownKeys == <<"products", "top_products", "results", "items">>

HasKey(d, k) == \E i \in 1..Len(d.pairs) : d.pairs[i].k = k
Get(d, k) == d.pairs[CHOOSE i \in 1..Len(d.pairs) : d.pairs[i].k = k].v

\* lines 77-80: for key in [...]: if key in parsed: parsed = parsed[key]; break
RECURSIVE FirstKnownKey(_, _)
FirstKnownKey(d, keys) ==
    IF keys = <<>> THEN "none"
    ELSE IF HasKey(d, Head(keys)) THEN Head(keys)
    ELSE FirstKnownKey(d, Tail(keys))

\* lines 82-85: for v in parsed.values(): if isinstance(v, list): parsed = v; break
RECURSIVE FirstListValue(_, _)
FirstListValue(d, pairs) ==
    IF pairs = <<>> THEN d
    ELSE IF Head(pairs).v.t = "list" THEN Head(pairs).v
    ELSE FirstListValue(d, Tail(pairs))

\* an unwrapping that skips a known key whose value is no list
RECURSIVE FirstKnownKeyHoldingList(_, _)
FirstKnownKeyHoldingList(d, keys) ==
    IF keys = <<>> THEN "none"
    ELSE IF HasKey(d, Head(keys)) /\ Get(d, Head(keys)).t = "list" THEN Head(keys)
    ELSE FirstKnownKeyHoldingList(d, Tail(keys))

UnwrapSkippingNonLists(parsed) ==
    IF parsed.t = "dict"
    THEN LET key == FirstKnownKeyHoldingList(parsed, KnownKeys)
         IN IF key # "none" THEN Get(parsed, key)
            ELSE FirstListValue(parsed, parsed.pairs)
    ELSE parsed

\* lines 76-85
Unwrap(parsed) ==
    IF parsed.t = "dict"
    THEN LET key == FirstKnownKey(parsed, KnownKeys)
         IN IF key # "none" THEN Get(parsed, key)
            ELSE FirstListValue(parsed, parsed.pairs)
    ELSE parsed

\* x.get("score", 0)
ScoreKey(x) == IF x.t = "int" THEN x.score ELSE 0

\* line 91: the sort raises when an element has no .get, and when it has
\* to compare a string score with a number
SortRaises(items) ==
    \/ \E i \in 1..Len(items) : items[i].t = "notdict"
    \/ /\ \E i \in 1..Len(items) : items[i].t = "str"
       /\ \E i \in 1..Len(items) : items[i].t \in {"int", "missing"}

\* a sort that puts elements of equal score in reverse order
RECURSIVE InsertDescBeforeEqual(_, _, _)
InsertDescBeforeEqual(order, keys, i) ==
    IF order = <<>> THEN <<i>>
    ELSE IF keys[Head(order)] > keys[i]
         THEN <<Head(order)>> \o InsertDescBeforeEqual(Tail(order), keys, i)
         ELSE <<i>> \o order

RECURSIVE UnstableOrderUpTo(_, _)
UnstableOrderUpTo(keys, k) ==
    IF k = 0 THEN <<>> ELSE InsertDescBeforeEqual(UnstableOrderUpTo(keys, k - 1), keys, k)

SortResponseUnstable(items) ==
    LET order == UnstableOrderUpTo([i \in 1..Len(items) |-> ScoreKey(items[i])], Len(items))
    IN [i \in 1..Len(items) |-> items[order[i]]]

\* line 91; string scores are all the same string in this model, so that a
\* list of them alone keeps its order
SortResponse(items) ==
    LET order == SortDescOrder([i \in 1..Len(items) |-> ScoreKey(items[i])])
    IN [i \in 1..Len(items) |-> items[order[i]]]

\* line 93: parsed[:top_n]
Slice(s, n) == SubSeq(s, 1, IF n < Len(s) THEN n ELSE Len(s))

\* lines 62-93, the body of the try: what it returns or the exception it raises
TryBody(resp, top_n) ==
    IF resp.kind = "api_error" THEN [exc |-> "APIError", val |-> <<>>]
    ELSE IF resp.kind = "no_content" THEN [exc |-> "AttributeError", val |-> <<>>]
    ELSE IF resp.kind = "malformed" THEN [exc |-> "JSONDecodeError", val |-> <<>>]
    ELSE LET parsed == Unwrap(resp.value)
         IN IF parsed.t # "list" THEN [exc |-> "none", val |-> <<>>]
            ELSE IF SortRaises(parsed.items) THEN [exc |-> "TypeError", val |-> <<>>]
            ELSE [exc |-> "none", val |-> Slice(SortResponse(parsed.items), top_n)]

\* the handlers without the catch-all: only json.JSONDecodeError is caught
HandlersNoCatchAll(r) ==
    IF r.exc = "none" THEN [raised |-> FALSE, out |-> r.val]
    ELSE IF r.exc = "JSONDecodeError" THEN [raised |-> FALSE, out |-> <<>>]
    ELSE [raised |-> TRUE, out |-> <<>>]

\* lines 95-100: except json.JSONDecodeError / except Exception
Handlers(r) ==
    IF r.exc = "none" THEN [raised |-> FALSE, out |-> r.val]
    ELSE IF r.exc = "JSONDecodeError" THEN [raised |-> FALSE, out |-> <<>>]
    ELSE [raised |-> FALSE, out |-> <<>>]

rank_products(products, resp, top_n) ==
    IF products = <<>> THEN [raised |-> FALSE, out |-> <<>>]
    ELSE Handlers(TryBody(resp, top_n))


(***************************************************************************)
(* The fallback strategy applied to bounded inputs.                        *)
(***************************************************************************)
KnownPrice == Lit(<<"$", "1", ".", "5">>)
SomeText == Lit(<<"x">>)

\* the listings the fallback is applied to: every category, a known or an
\* unknown price, orders/reviews text present or absent
RankProductSet ==
    {Product(Empty, price, Empty, Lit(<<"A">>), cat, Empty, Empty, orders, Empty) :
        price \in {SeeListing, KnownPrice}, cat \in Categories,
        orders \in {Empty, SomeText}}

\* one listing for every combination of attributes the score looks at
AttributeProductSet ==
    {Product(Empty, price, Empty, Lit(<<"A">>), "lamps", image, min_order, orders, supplier) :
        price \in {Empty, SeeListing, KnownPrice}, image \in {Empty, SomeText},
        min_order \in {Empty, SomeText}, orders \in {Empty, SomeText},
        supplier \in {Empty, SomeText}}

\* four listings of two categories: with top_n = 3 the cap of 2 is reached
\* before top_n listings are selected
CapProductSet ==
    {Product(Empty, price, Empty, Lit(<<"A">>), cat, Empty, Empty, Empty, Empty) :
        price \in {SeeListing, KnownPrice}, cat \in Categories}

CapSequences == [1..4 -> CapProductSet]

\* the listings of a sequence are told apart by their name: its position
Named(s) == [i \in 1..Len(s) |-> [s[i] EXCEPT !.name = Str(i)]]

IdleExtract ==
    /\ ex_site = "none"
    /\ ex_category = "none"
    /\ ex_resp = <<>>
    /\ ex_pc = "idle"
    /\ ex_out = <<>>

IdleRun ==
    /\ run_cfg = [openai_api_key |-> FALSE, telegram_bot_token |-> FALSE,
                  telegram_chat_id |-> FALSE, product_count |-> 0]
    /\ run_args = [count |-> 0, scrape_only |-> FALSE, dry_run |-> FALSE]
    /\ run_pc = "idle"
    /\ run_products = <<>>
    /\ run_top = <<>>
    /\ run_calls = <<>>
    /\ run_exit = "none"

IdleDigest ==
    /\ dg_fn = "none"
    /\ dg_error = Empty
    /\ dg_products = <<>>
    /\ dg_label = Empty
    /\ dg_pc = "idle"
    /\ dg_msgs = <<>>
    /\ dg_sent = 0
    /\ dg_posts = <<>>
    /\ dg_results = <<>>
    /\ dg_ret = "none"

IdleScrape ==
    /\ sc_cats = <<>>
    /\ sc_pc = "idle"
    /\ sc_cat = 0
    /\ sc_selected = <<>>
    /\ sc_tasks = <<>>
    /\ sc_client = "none"
    /\ sc_all = <<>>
    /\ sc_unique = <<>>
    /\ sc_raised = FALSE

IdleLLM ==
    /\ llm_products = <<>>
    /\ llm_top_n = 0
    /\ llm_resp = [kind |-> "api_error", value |-> JScalar]
    /\ llm_pc = "idle"
    /\ llm_result = [raised |-> FALSE, out |-> <<>>]

IdleFallback ==
    /\ fb_products = <<>>
    /\ fb_top_n = 0
    /\ fb_pc = "idle"
    /\ fb_out = <<>>

InitFallback ==
    /\ IdleRun
    /\ IdleExtract
    /\ IdleDigest
    /\ IdleLLM
    /\ IdleScrape
    /\ fb_products \in {Named(s) : s \in SeqsUpTo(RankProductSet, MaxProducts)
                                             \cup SeqsUpTo(AttributeProductSet, 1)
                                             \cup CapSequences}
    /\ fb_top_n \in 0..MaxTopN
    /\ fb_pc = "call"
    /\ fb_out = <<>>

CallFallback ==
    /\ fb_pc = "call"
    /\ fb_out' = rank_products_fallback(fb_products, fb_top_n)
    /\ fb_pc' = "done"
    /\ UNCHANGED <<fb_products, fb_top_n, others_fb>>

SpecFallback == InitFallback /\ [][CallFallback]_vars

(***************************************************************************)
(* Claims about rank_products_fallback.                                    *)
(***************************************************************************)
DistinctCategories(products) == Cardinality({products[i].category : i \in 1..Len(products)})

\* C1: for every listing sequence and every top_n (0 included) the fallback
\* returns at most top_n entries, and no category contributes more than
\* max(1, floor(top_n / distinctCategories) + 1) entries.
C1_FallbackLengthAndCap ==
    fb_pc = "done" =>
        /\ Len(fb_out) <= fb_top_n
        /\ fb_products # <<>> =>
              \A cat \in Categories :
                  CountCat(fb_out, cat)
                      <= Max(1, (fb_top_n \div DistinctCategories(fb_products)) + 1)

(***************************************************************************)
(* The LLM strategy applied to bounded inputs and responses.               *)
(***************************************************************************)
ElementSet == {[id |-> 0, t |-> "int", score |-> 1], [id |-> 0, t |-> "int", score |-> 2],
               [id |-> 0, t |-> "int", score |-> -1],
               [id |-> 0, t |-> "missing", score |-> 0], [id |-> 0, t |-> "str", score |-> 0],
               [id |-> 0, t |-> "notdict", score |-> 0]}

\* the elements of a list are told apart by their position in the response
Numbered(s) == [i \in 1..Len(s) |-> [s[i] EXCEPT !.id = i]]

BareLists == {JList(Numbered(s)) : s \in SeqsUpTo(ElementSet, MaxResp)}

\* the values found under a key of a mapping
DictValues == {JScalar} \cup {JList(Numbered(s)) : s \in SeqsUpTo(ElementSet, 1)}

DictKeys == {"products", "top_products", "results", "items", "data", "meta"}

Dicts ==
    {JDict(<<>>)}
    \cup {JDict(<<[k |-> k1, v |-> v1]>>) : k1 \in DictKeys, v1 \in DictValues}
    \cup {JDict(<<[k |-> kv[1], v |-> kv[3]], [k |-> kv[2], v |-> kv[4]]>>) :
            kv \in {x \in DictKeys \X DictKeys \X DictValues \X DictValues : x[1] # x[2]}}

Responses ==
    {[kind |-> k, value |-> JScalar] : k \in {"api_error", "no_content", "malformed"}}
    \cup {[kind |-> "json", value |-> v] : v \in BareLists \cup Dicts \cup {JScalar}}

InitLLM ==
    /\ IdleRun
    /\ IdleExtract
    /\ IdleDigest
    /\ IdleFallback
    /\ IdleScrape
    /\ llm_products \in {Named(s) : s \in SeqsUpTo({Product(Empty, KnownPrice, Empty, Lit(<<"A">>), "lamps", Empty, Empty, Empty, Empty)}, 1)}
    /\ llm_top_n \in 0..MaxTopN
    /\ llm_resp \in Responses
    /\ llm_pc = "call"
    /\ llm_result = [raised |-> FALSE, out |-> <<>>]

CallRankProducts ==
    /\ llm_pc = "call"
    /\ llm_result' = rank_products(llm_products, llm_resp, llm_top_n)
    /\ llm_pc' = "done"
    /\ UNCHANGED <<llm_products, llm_top_n, llm_resp, others_llm>>

SpecLLM == InitLLM /\ [][CallRankProducts]_vars

(***************************************************************************)
(* Claims about rank_products.                                             *)
(***************************************************************************)
ListValues(d) == {d.pairs[i].v : i \in {j \in 1..Len(d.pairs) : d.pairs[j].v.t = "list"}}

\* a response that is a failure whatever the reading of the accepted shapes:
\* an error of the call, no content, malformed JSON, a value that is neither
\* a sequence nor a mapping, a mapping that holds no sequence, or sequences
\* whose elements cannot be sorted
C2_Failure(resp) ==
    \/ resp.kind # "json"
    \/ resp.value.t = "scalar"
    \/ resp.value.t = "list" /\ SortRaises(resp.value.items)
    \/ resp.value.t = "dict" /\ \A l \in ListValues(resp.value) : SortRaises(l.items)

C2_WholeResults(resp, top_n) ==
    {<<>>}
    \cup (IF resp.kind = "json" /\ resp.value.t = "list" /\ ~SortRaises(resp.value.items)
          THEN {Slice(SortResponse(resp.value.items), top_n)} ELSE {})
    \cup (IF resp.kind = "json" /\ resp.value.t = "dict"
          THEN {Slice(SortResponse(l.items), top_n) :
                    l \in {x \in ListValues(resp.value) : ~SortRaises(x.items)}}
          ELSE {})

\* C2: rank_products never raises and never partially succeeds: on malformed
\* JSON, a response of the wrong shape, elements that cannot be sorted or an
\* error of the remote call it returns the empty sequence, and any other
\* result is a whole sorted, truncated sequence of the response.
C2_NeverRaisesEmptyOnFailure ==
    llm_pc = "done" =>
        /\ ~llm_result.raised
        /\ C2_Failure(llm_resp) => llm_result.out = <<>>
        /\ llm_result.out \in C2_WholeResults(llm_resp, llm_top_n)

C2_Witness ==
    /\ llm_pc = "done"
    /\ llm_products # <<>>
    /\ llm_resp.kind = "json"
    /\ llm_resp.value.t = "list"
    /\ Len(llm_resp.value.items) = 2
    /\ SortRaises(llm_resp.value.items)
    /\ llm_top_n >= 1
    /\ llm_result = [raised |-> FALSE, out |-> <<>>]

\* what a sequence yields once accepted: sorted and truncated, or nothing
\* when its elements cannot be sorted
C3_Result(v, top_n) ==
    IF v.t = "list" /\ ~SortRaises(v.items) THEN Slice(SortResponse(v.items), top_n) ELSE <<>>

Min(S) == CHOOSE x \in S : \A y \in S : x <= y

C3_ListValueIndexes(d) == {i \in 1..Len(d.pairs) : d.pairs[i].v.t = "list"}

\* the claim as stated: the first known key that HOLDS a sequence, else the
\* first value that is a sequence, else a failure
C3_OriginalAccepted(d) ==
    LET holding == {i \in 1..Len(KnownKeys) :
                       HasKey(d, KnownKeys[i]) /\ Get(d, KnownKeys[i]).t = "list"}
    IN IF holding # {} THEN Get(d, KnownKeys[Min(holding)])
       ELSE IF C3_ListValueIndexes(d) # {} THEN d.pairs[Min(C3_ListValueIndexes(d))].v
       ELSE JScalar

\* the amended claim: the first known key that is PRESENT decides
C3_AmendedAccepted(d) ==
    LET present == {i \in 1..Len(KnownKeys) : HasKey(d, KnownKeys[i])}
    IN IF present # {} THEN Get(d, KnownKeys[Min(present)])
       ELSE IF C3_ListValueIndexes(d) # {} THEN d.pairs[Min(C3_ListValueIndexes(d))].v
       ELSE JScalar

C3_MappingCase ==
    llm_pc = "done" /\ llm_products # <<>> /\ llm_resp.kind = "json" /\ llm_resp.value.t = "dict"

\* C3 (as stated): for a mapping response rank_products accepts the sequence
\* under the first of products, top_products, results, items that holds a
\* sequence, else the first mapping value that is a sequence, and fails only
\* when neither exists.
C3_Original ==
    C3_MappingCase =>
        llm_result.out = C3_Result(C3_OriginalAccepted(llm_resp.value), llm_top_n)

\* C3 (amended): for a mapping response rank_products takes the value under
\* the first of products, top_products, results, items that is present in
\* the mapping, and the response is a failure when that value is no
\* sequence; only when none of the four keys is present does it accept the
\* first mapping value that is a sequence, and fail when there is none.
C3_Amended ==
    C3_MappingCase =>
        llm_result.out = C3_Result(C3_AmendedAccepted(llm_resp.value), llm_top_n)

C3_Witness ==
    /\ C3_MappingCase
    /\ llm_top_n >= 1
    /\ Len(llm_resp.value.pairs) = 2
    /\ llm_resp.value.pairs[1].k = "items"
    /\ llm_resp.value.pairs[2].k = "products"
    /\ llm_resp.value.pairs[1].v.t = "list"
    /\ llm_resp.value.pairs[2].v.t = "list"
    /\ llm_resp.value.pairs[1].v.items # <<>>
    /\ llm_resp.value.pairs[2].v.items # <<>>
    /\ llm_resp.value.pairs[1].v.items[1].t = "int"
    /\ llm_resp.value.pairs[2].v.items[1].t = "missing"
    /\ llm_result.out = llm_resp.value.pairs[2].v.items

C4_Case ==
    /\ llm_pc = "done"
    /\ llm_products # <<>>
    /\ llm_resp.kind = "json"
    /\ llm_resp.value.t = "list"
    /\ \A i \in 1..Len(llm_resp.value.items) : llm_resp.value.items[i].t \in {"int", "missing"}
    /\ Len(llm_resp.value.items) >= llm_top_n

\* x comes before y in a descending stable order of the response
C4_Before(x, y) == ScoreKey(x) > ScoreKey(y) \/ (ScoreKey(x) = ScoreKey(y) /\ x.id < y.id)

\* C4: for a bare array of N >= top_n objects with integer scores,
\* rank_products returns exactly top_n of them, by non-increasing score,
\* equal scores in response order, a missing score counting as 0; the
\* entries left out all come after the returned ones in that order.
C4_TopNSortedStable ==
    C4_Case =>
        LET out == llm_result.out
            items == llm_resp.value.items
        IN /\ Len(out) = llm_top_n
           /\ \A i \in 1..Len(out) : out[i] \in Range(items)
           /\ \A i, j \in 1..Len(out) : i < j => C4_Before(out[i], out[j])
           /\ \A x \in Range(items) \ Range(out) : \A y \in Range(out) : C4_Before(y, x)

C4_Witness ==
    /\ C4_Case
    /\ llm_top_n = 2
    /\ Len(llm_resp.value.items) = 3
    /\ llm_resp.value.items[1].t = "int" /\ llm_resp.value.items[1].score = -1
    /\ llm_resp.value.items[2].t = "missing"
    /\ llm_resp.value.items[3].t = "missing"
    /\ llm_result.out = <<llm_resp.value.items[2], llm_resp.value.items[3]>>

(***************************************************************************)
(* scrape_alibaba, scrape_dhgate and scrape_all_categories                 *)
(* (src/scraper.py).                                                       *)
(*                                                                         *)
(* What a task meets is a response [status, listings, parse_error]:        *)
(* status "neterr" when client.get or raise_for_status raises, else        *)
(* "ok" with the listings the parser extracts in document order;           *)
(* parse_error when the parser raises after it has extracted them.         *)
(* escaped is an exception that no `except Exception` of the task catches  *)
(* (asyncio.CancelledError): gather returns it as the task's result.       *)
(***************************************************************************)
AlibabaMaxItems == 8
DhgateMaxItems == 5

\* scrape_alibaba: products is extended only by a parser call that returned
ScrapeAlibaba(resp) ==
    IF resp.status = "neterr" THEN <<>>
    ELSE IF resp.parse_error THEN <<>>
    ELSE Slice(resp.listings, AlibabaMaxItems)

\* scrape_dhgate: the link sweep appends to products inside the outer try,
\* so what it appended before an exception is returned
ScrapeDhgate(resp) ==
    IF resp.status = "neterr" THEN <<>>
    ELSE Slice(resp.listings, DhgateMaxItems)

\* what gather(..., return_exceptions=True) holds for a task: its list, or
\* the exception that escaped it
TaskResult(site, resp) ==
    IF resp.escaped THEN [exc |-> TRUE, list |-> <<>>]
    ELSE [exc |-> FALSE, list |-> IF site = "Alibaba" THEN ScrapeAlibaba(resp)
                                                      ELSE ScrapeDhgate(resp)]

\* gather without return_exceptions: the first exception of a task is raised
GatherRaisingFirst(tasks) ==
    [raised |-> \E i \in 1..Len(tasks) : tasks[i].result.exc,
     results |-> [i \in 1..Len(tasks) |-> tasks[i].result]]

\* line 255: results = await asyncio.gather(*tasks, return_exceptions=True);
\* the results are in the order of the awaitables
Gather(tasks) ==
    [raised |-> FALSE, results |-> [i \in 1..Len(tasks) |-> tasks[i].result]]

\* lines 257-261
RECURSIVE Merge(_)
Merge(results) ==
    IF results = <<>> THEN <<>>
    ELSE (IF ~Head(results).exc THEN Head(results).list ELSE <<>>) \o Merge(Tail(results))

\* a deduplication that never records the links it has seen
RECURSIVE DedupForgetful(_, _)
DedupForgetful(all_products, seen_links) ==
    IF all_products = <<>> THEN <<>>
    ELSE LET p == Head(all_products)
         IN IF p.link \notin seen_links
            THEN <<p>> \o DedupForgetful(Tail(all_products), seen_links)
            ELSE DedupForgetful(Tail(all_products), seen_links)

\* lines 263-268
RECURSIVE Dedup(_, _)
Dedup(all_products, seen_links) ==
    IF all_products = <<>> THEN <<>>
    ELSE LET p == Head(all_products)
         IN IF p.link \notin seen_links
            THEN <<p>> \o Dedup(Tail(all_products), seen_links \cup {p.link})
            ELSE Dedup(Tail(all_products), seen_links)

\* line 249: random.sample(keywords, min(2, len(keywords))): the keywords
\* are numbered 1..n
Samples(n) ==
    LET k == IF n < 2 THEN n ELSE 2
    IN {s \in [1..k -> 1..n] : \A i, j \in 1..k : i # j => s[i] # s[j]}

(***************************************************************************)
(* The orchestrator as a process.  A coroutine object is "created" by the  *)
(* call in tasks.append(...), starts to run when gather schedules it, and  *)
(* is "done" when it returned or raised.                                   *)
(***************************************************************************)
Links == {Lit(<<"h", "t", "t", "p", "s", ":", "/", "/", "a">>),
          Lit(<<"h", "t", "t", "p", "s", ":", "/", "/", "b">>)}

\* the listings task i extracts from the links: named by task and position
TaskListings(i, site, cat, links) ==
    [k \in 1..Len(links) |->
        Product(Lit(<<DigitChar(i), "-", DigitChar(k)>>), SeeListing, links[k], Lit(<<site>>),
                cat, Empty, Empty, Empty, Empty)]

\* the responses task i may meet when the responses together may still hold
\* room listings
TaskResponses(i, site, cat, room) ==
    {[status |-> "neterr", listings |-> <<>>, parse_error |-> FALSE, escaped |-> FALSE],
     [status |-> "ok", listings |-> <<>>, parse_error |-> FALSE, escaped |-> TRUE]}
    \cup {[status |-> "ok", listings |-> TaskListings(i, site, cat, links),
           parse_error |-> pe, escaped |-> FALSE] :
              links \in SeqsUpTo(Links, room), pe \in BOOLEAN}

\* the categories given: one category of 0..MaxKeywords keywords, or two
\* categories of one keyword each
CategoryConfigs ==
    {<<[name |-> "lamps", keywords |-> n]>> : n \in 0..MaxKeywords}
    \cup {<<[name |-> "lamps", keywords |-> 1], [name |-> "telescopes", keywords |-> 1]>>}

InitScrape ==
    /\ IdleRun
    /\ IdleExtract
    /\ IdleDigest
    /\ IdleFallback
    /\ IdleLLM
    /\ sc_cats \in CategoryConfigs
    /\ sc_pc = "start"
    /\ sc_cat = 0
    /\ sc_selected = <<>>
    /\ sc_tasks = <<>>
    /\ sc_client = "none"
    /\ sc_all = <<>>
    /\ sc_unique = <<>>
    /\ sc_raised = FALSE

\* line 246: async with httpx.AsyncClient(...) as client
ScOpenClient ==
    /\ sc_pc = "start"
    /\ sc_client' = "open"
    /\ sc_pc' = "next_cat"
    /\ UNCHANGED <<sc_cats, sc_cat, sc_selected, sc_tasks, sc_all, sc_unique, sc_raised, others_sc>>

\* lines 248-249: the next category and the sample of its keywords
ScNextCategory ==
    /\ sc_pc = "next_cat"
    /\ sc_cat < Len(sc_cats)
    /\ sc_cat' = sc_cat + 1
    /\ \E s \in Samples(sc_cats[sc_cat + 1].keywords) : sc_selected' = s
    /\ sc_pc' = "next_kw"
    /\ UNCHANGED <<sc_cats, sc_tasks, sc_client, sc_all, sc_unique, sc_raised, others_sc>>

\* lines 250-253: two coroutine objects are appended for the keyword (kw is
\* the number of the keyword in submission order), then the loop sleeps
ScSubmit ==
    /\ sc_pc = "next_kw"
    /\ sc_selected # <<>>
    /\ sc_tasks' = sc_tasks \o
          <<[site |-> "Alibaba", cat |-> sc_cats[sc_cat].name, kw |-> (Len(sc_tasks) \div 2) + 1,
             state |-> "created", result |-> [exc |-> FALSE, list |-> <<>>], failed |-> FALSE],
            [site |-> "DHgate", cat |-> sc_cats[sc_cat].name, kw |-> (Len(sc_tasks) \div 2) + 1,
             state |-> "created", result |-> [exc |-> FALSE, list |-> <<>>], failed |-> FALSE]>>
    /\ sc_selected' = Tail(sc_selected)
    /\ sc_pc' = "sleep"
    /\ UNCHANGED <<sc_cats, sc_cat, sc_client, sc_all, sc_unique, sc_raised, others_sc>>

\* line 253: asyncio.sleep(random.uniform(0.5, 1.5)) returns
ScWake ==
    /\ sc_pc = "sleep"
    /\ sc_pc' = "next_kw"
    /\ UNCHANGED <<sc_cats, sc_cat, sc_selected, sc_tasks, sc_client, sc_all, sc_unique, sc_raised, others_sc>>

\* the keywords of the category are exhausted
ScCategoryDone ==
    /\ sc_pc = "next_kw"
    /\ sc_selected = <<>>
    /\ sc_pc' = "next_cat"
    /\ UNCHANGED <<sc_cats, sc_cat, sc_selected, sc_tasks, sc_client, sc_all, sc_unique, sc_raised, others_sc>>

\* line 255: gather wraps the coroutines in tasks; they run up to their
\* client.get
ScGather ==
    /\ sc_pc = "next_cat"
    /\ sc_cat = Len(sc_cats)
    /\ sc_tasks' = [i \in 1..Len(sc_tasks) |-> [sc_tasks[i] EXCEPT !.state = "running"]]
    /\ sc_pc' = "await"
    /\ UNCHANGED <<sc_cats, sc_cat, sc_selected, sc_client, sc_all, sc_unique, sc_raised, others_sc>>

\* the listings the tasks have returned so far
Returned(tasks) == SumSeq([i \in 1..Len(tasks) |-> Len(tasks[i].result.list)])

\* a running task meets its response and ends
ScTaskDone ==
    /\ sc_pc = "await"
    /\ \E i \in 1..Len(sc_tasks) :
          /\ sc_tasks[i].state = "running"
          /\ \E resp \in TaskResponses(i, sc_tasks[i].site, sc_tasks[i].cat,
                                         MaxListings - Returned(sc_tasks)) :
                sc_tasks' = [sc_tasks EXCEPT ![i] =
                                [@ EXCEPT !.state = "done",
                                          !.result = TaskResult(sc_tasks[i].site, resp),
                                          !.failed = resp.status = "neterr" \/ resp.escaped]]
    /\ UNCHANGED <<sc_cats, sc_pc, sc_cat, sc_selected, sc_client, sc_all, sc_unique, sc_raised, others_sc>>

\* lines 253 and 255: the call is cancelled while it sleeps or awaits gather
\* (asyncio.run cancels the main task on an interrupt).  At gather the
\* cancellation is passed to the tasks and CancelledError is raised in the
\* call only when all of them have ended; at the sleep the coroutines were
\* never started.
ScCancel ==
    /\ sc_pc \in {"sleep", "await"}
    /\ sc_tasks' = [i \in 1..Len(sc_tasks) |->
                      IF sc_tasks[i].state = "running"
                      THEN [sc_tasks[i] EXCEPT !.state = "done",
                                               !.result = [exc |-> TRUE, list |-> <<>>],
                                               !.failed = TRUE]
                      ELSE sc_tasks[i]]
    /\ sc_pc' = "unwind"
    /\ UNCHANGED <<sc_cats, sc_cat, sc_selected, sc_client, sc_all, sc_unique, sc_raised, others_sc>>

\* a merge that starts as soon as one task has ended
ScMergeEarly ==
    /\ sc_pc = "await"
    /\ \E i \in 1..Len(sc_tasks) : sc_tasks[i].state = "done"
    /\ LET g == Gather(sc_tasks)
       IN /\ sc_raised' = g.raised
          /\ sc_all' = IF g.raised THEN <<>> ELSE Merge(g.results)
    /\ sc_pc' = "release"
    /\ UNCHANGED <<sc_cats, sc_cat, sc_selected, sc_tasks, sc_client, sc_unique, others_sc>>

\* lines 255-261: gather returns once every task is done; the results are
\* merged, or the exception gather raised leaves the function
ScMerge ==
    /\ sc_pc = "await"
    /\ \A i \in 1..Len(sc_tasks) : sc_tasks[i].state = "done"
    /\ LET g == Gather(sc_tasks)
       IN /\ sc_raised' = g.raised
          /\ sc_all' = IF g.raised THEN <<>> ELSE Merge(g.results)
    /\ sc_pc' = "release"
    /\ UNCHANGED <<sc_cats, sc_cat, sc_selected, sc_tasks, sc_client, sc_unique, others_sc>>

\* the end of the async with block, left by its last statement or by an
\* exception: the client is closed
ScRelease ==
    /\ sc_pc \in {"release", "unwind"}
    /\ sc_client' = "closed"
    /\ sc_pc' = IF sc_pc = "unwind" THEN "cancelled"
                ELSE IF sc_raised THEN "done" ELSE "dedup"
    /\ UNCHANGED <<sc_cats, sc_cat, sc_selected, sc_tasks, sc_all, sc_unique, sc_raised, others_sc>>

\* lines 263-271
ScReturn ==
    /\ sc_pc = "dedup"
    /\ sc_unique' = Dedup(sc_all, {})
    /\ sc_pc' = "done"
    /\ UNCHANGED <<sc_cats, sc_cat, sc_selected, sc_tasks, sc_client, sc_all, sc_raised, others_sc>>

NextScrape ==
    \/ ScOpenClient
    \/ ScNextCategory
    \/ ScSubmit
    \/ ScWake
    \/ ScCategoryDone
    \/ ScGather
    \/ ScTaskDone
    \/ ScCancel
    \/ ScMerge
    \/ ScRelease
    \/ ScReturn

SpecScrape == InitScrape /\ [][NextScrape]_vars

(***************************************************************************)
(* Claims about scrape_all_categories.                                     *)
(***************************************************************************)
C6_Returned == sc_pc = "done" /\ ~sc_raised

\* the positions of the merged sequence that hold the first occurrence of
\* their link
C6_FirstPositions(all) == {i \in 1..Len(all) : \A j \in 1..(i - 1) : all[j].link # all[i].link}

\* the k-th smallest element of a set of numbers
C6_Kth(S, k) == CHOOSE x \in S : Cardinality({y \in S : y < x}) = k - 1

\* C6: the sequence scrape_all_categories returns holds no two listings with
\* the same link; it is the first occurrence of each link of the merged
\* sequence, in merged order, and deduplicating it again changes nothing.
C6_DedupFirstSeenIdempotent ==
    C6_Returned =>
        /\ \A i, j \in 1..Len(sc_unique) : i # j => sc_unique[i].link # sc_unique[j].link
        /\ Len(sc_unique) = Cardinality(C6_FirstPositions(sc_all))
        /\ \A k \in 1..Len(sc_unique) : sc_unique[k] = sc_all[C6_Kth(C6_FirstPositions(sc_all), k)]
        /\ Dedup(sc_unique, {}) = sc_unique

\* two tasks returned the same link, and one of them returned it twice
C6_Witness ==
    /\ C6_Returned
    /\ Len(sc_all) = 3
    /\ sc_all[1].link = sc_all[2].link
    /\ sc_all[1].source = sc_all[2].source
    /\ sc_all[3].link = sc_all[1].link
    /\ sc_all[3].source # sc_all[1].source
    /\ sc_unique = <<sc_all[1]>>

C7_Failed(i) == sc_tasks[i].failed
C7_Succeeded(i) == ~sc_tasks[i].failed /\ ~sc_tasks[i].result.exc

\* the listings of task i carry its number in their name
C7_From(p, i) == Expand(p.name)[1] = DigitChar(i)

\* C7: whatever subset of the tasks fails (an exception escapes the task, or
\* its request hits a network error), scrape_all_categories raises nothing:
\* the link of every listing returned by a task that succeeded is in the
\* output, a failed task contributes no listing, and when every task failed
\* the output is empty.
C7_PartialFailureTolerated ==
    sc_pc = "done" =>
        /\ ~sc_raised
        /\ \A i \in 1..Len(sc_tasks) :
              C7_Succeeded(i) =>
                  \A k \in 1..Len(sc_tasks[i].result.list) :
                      \E u \in 1..Len(sc_unique) : sc_unique[u].link = sc_tasks[i].result.list[k].link
        /\ \A i \in 1..Len(sc_tasks) :
              C7_Failed(i) =>
                  /\ sc_tasks[i].result.list = <<>>
                  /\ \A u \in 1..Len(sc_unique) : ~C7_From(sc_unique[u], i)
        /\ (\A i \in 1..Len(sc_tasks) : C7_Failed(i)) => sc_unique = <<>>

\* one task raised, one hit a network error, and a listing of a third is returned
C7_Witness ==
    /\ sc_pc = "done"
    /\ ~sc_raised
    /\ Len(sc_tasks) = 4
    /\ \E i \in 1..Len(sc_tasks) : sc_tasks[i].result.exc
    /\ \E i \in 1..Len(sc_tasks) : sc_tasks[i].failed /\ ~sc_tasks[i].result.exc
    /\ \E i \in 1..Len(sc_tasks) : C7_Succeeded(i) /\ sc_tasks[i].result.list # <<>>
    /\ sc_unique # <<>>

(***************************************************************************)
(* _esc, send_daily_digest and _send_message                               *)
(* (src/alibaba-scout/src/notifier.py).                                    *)
(*                                                                         *)
(* A message is a sequence of parts [seg, f, t]: the text t, the segment   *)
(* it belongs to (0 the header, i >= 1 the entry of the i-th listing, -1   *)
(* the footer, -2 a notice) and where it comes from (f = "lit" for text of *)
(* the template, else the name of the field).  The string sent is the      *)
(* concatenation of the texts of its parts.                                *)
(***************************************************************************)
SoftLimit == 3800
HardCap == 4096

\* line 16: the characters _esc escapes, in order (U+0060 is the grave accent)
ReservedChars == <<"_", "*", "[", "]", "(", ")", "~", "U+0060", ">", "#", "+", "-", "=", "|",
                   "{", "}", ".", "!">>

\* text.replace(ch, "\\" + ch) on a sequence of characters
ReplaceChar(u, ch) ==
    IF \A i \in 1..Len(u) : u[i] # ch THEN u
    ELSE Flatten([i \in 1..Len(u) |-> IF u[i] = ch THEN <<"\\", ch>> ELSE <<u[i]>>])

\* lines 16-17: one replace per reserved character, in order
RECURSIVE EscChars(_, _)
EscChars(u, reserved) ==
    IF reserved = <<>> THEN u
    ELSE EscChars(ReplaceChar(u, Head(reserved)), Tail(reserved))

\* _esc: a replace of one character acts on every repetition alike
Esc(t) == [i \in 1..Len(t) |-> [u |-> EscChars(t[i].u, ReservedChars), n |-> t[i].n]]

\* a retry that sends the text as it is
StripNothing(t) == t

\* text.replace("\\", "")
StripBackslashes(t) ==
    LET strip(u) == SelectSeq(u, LAMBDA c : c # "\\")
        kept == SelectSeq(t, LAMBDA r : strip(r.u) # <<>>)
    IN [i \in 1..Len(kept) |-> [u |-> strip(kept[i].u), n |-> kept[i].n]]

\* needle in text (needle is not empty): no text without the first
\* character of the needle contains it
Contains(t, needle) ==
    /\ \E i \in 1..Len(t) : needle[1] \in Range(t[i].u)
    /\ LET c == Expand(t)
       IN \E k \in 1..(Len(c) - Len(needle) + 1) : SubSeq(c, k, k + Len(needle) - 1) = needle

Part(seg, f, t) == [seg |-> seg, f |-> f, t |-> t]

\* len() of a message or of a piece of one
PLen(parts) == SumSeq([i \in 1..Len(parts) |-> TLen(parts[i].t)])

\* a ranked listing as send_daily_digest receives it: a dict, whose keys in
\* absent are missing
Ranked(name, price, link, source, category, score, reason, min_order, orders_or_reviews, supplier, absent) ==
    [name |-> name, price |-> price, link |-> link, source |-> source,
     category |-> category, score |-> score, reason |-> reason, min_order |-> min_order,
     orders_or_reviews |-> orders_or_reviews, supplier |-> supplier, absent |-> absent]

\* product.get(key, default)
DGet(product, key, default) == IF key \in product.absent THEN default ELSE product[key]

\* f"{score}"
ScoreText(score) == IF score < 0 THEN Lit(<<"-">>) \o Str(0 - score) ELSE Str(score)

\* lines 63-66
CatEmoji(category) ==
    CASE category = "lamps" -> "U+1F4A1"
      [] category = "telescopes" -> "U+1F52D"
      [] category = "binoculars" -> "U+1F52D"
      [] category = "kids_toys" -> "U+1F9F8"
      [] category = "electronics" -> "U+1F4F1"
      [] OTHER -> "U+1F4E6"

\* datetime.now().strftime("%d/%m/%Y") and ("%H:%M")
DateStr == Lit(<<"0", "2", "/", "1", "1", "/", "2", "0", "2", "6">>)
TimeStr == Lit(<<"2", "1", ":", "3", "7">>)

DefaultLabel == Lit(<<"U+1F525", " ", "P", "r", "o", "d", "u", "c", "t", " ", "S", "c", "o",
        "u", "t">>)

\* lines 40-46
Header(session_label, count) ==
    LET label == IF Truthy(session_label) THEN session_label ELSE DefaultLabel
    IN <<Part(0, "lit", Lit(<<"*">>)),
         Part(0, "label", Esc(label)),
         Part(0, "lit", Lit(<<"*", "\n", "U+1F4C5", " ">>)),
         Part(0, "date", Esc(DateStr)),
         Part(0, "lit", Lit(<<" ", " ", "U+23F0", " ">>)),
         Part(0, "time", Esc(TimeStr)),
         Part(0, "lit", Lit(<<"\n", "U+1F4E6", " ", "T", "o", "p", " ">>)),
         Part(0, "count", Str(count)),
         Part(0, "lit", Lit(<<" ", "v", "i", "r", "a", "l", " ", "p", "r", "o", "d", "u", "c",
                 "t", "s", "\n">>)),
         Part(0, "lit", Rep("U+2500", 28)),
         Part(0, "lit", Lit(<<"\n", "\n">>))>>

\* lines 52-79: the entry of the i-th listing
Entry(i, product) ==
    LET name == Take(DGet(product, "name", Lit(<<"U", "n", "k", "n", "o", "w", "n">>)), 80)
        price == DGet(product, "price", Lit(<<"N", "/", "A">>))
        link == DGet(product, "link", Lit(<<"#">>))
        source == DGet(product, "source", Lit(<<"U", "n", "k", "n", "o", "w", "n">>))
        category == DGet(product, "category", "")
        score == DGet(product, "score", 0)
        reason == DGet(product, "reason", Empty)
        min_order == DGet(product, "min_order", Empty)
        orders == DGet(product, "orders_or_reviews", Empty)
        supplier == DGet(product, "supplier", Empty)
    IN <<Part(i, "lit", Lit(<<CatEmoji(category)>>) \o Lit(<<" ", "*">>)),
         Part(i, "index", Str(i)),
         Part(i, "lit", Lit(<<"\\", ".", " ">>)),
         Part(i, "name", Esc(name)),
         Part(i, "lit", Lit(<<"*", "\n">>)),
         Part(i, "lit", Lit(<<"U+1F4B0", " ">>)),
         Part(i, "price", Esc(price)),
         Part(i, "lit", Lit(<<"\n">>))>>
       \o (IF Truthy(min_order)
           THEN <<Part(i, "lit", Lit(<<"U+1F4E6", " ", "M", "O", "Q", ":", " ">>)), Part(i,
                   "min_order", Esc(min_order)), Part(i, "lit", Lit(<<"\n">>))>>
           ELSE <<>>)
       \o (IF Truthy(orders)
           THEN <<Part(i, "lit", Lit(<<"U+1F525", " ">>)), Part(i, "orders_or_reviews",
                   Esc(orders)), Part(i, "lit", Lit(<<"\n">>))>>
           ELSE <<>>)
       \o (IF Truthy(supplier)
           THEN <<Part(i, "lit", Lit(<<"U+1F3ED", " ">>)), Part(i, "supplier", Esc(supplier)),
                   Part(i, "lit", Lit(<<"\n">>))>>
           ELSE <<>>)
       \o <<Part(i, "lit", Lit(<<"U+2B50", " ", "S", "c", "o", "r", "e", ":", " ">>)),
            Part(i, "score", ScoreText(score)),
            Part(i, "lit", Lit(<<"/", "1", "0", "0", "\n">>))>>
       \o (IF Truthy(reason)
           THEN <<Part(i, "lit", Lit(<<"U+1F4A1", " ">>)), Part(i, "reason", Esc(reason)),
                   Part(i, "lit", Lit(<<"\n">>))>>
           ELSE <<>>)
       \o <<Part(i, "lit", Lit(<<"U+1F517", " ", "[", "O", "p", "e", "n", " ", "o", "n", " ">>)),
            Part(i, "source", Esc(source)),
            Part(i, "lit", Lit(<<"]", "(">>)),
            Part(i, "link", link),
            Part(i, "lit", Lit(<<")", "\n", "\n">>))>>

NoonMarker == <<"U+10E8", "U+10E3", "U+10D0", "U+10D3", "U+10E6">>

\* lines 89-94
Footer(session_label) ==
    LET next_session == IF Contains(session_label, NoonMarker)
                        THEN Lit(<<"1", "8", ":", "0", "0">>) ELSE Lit(<<"1", "2", ":", "0", "0">>)
    IN <<Part(-1, "lit", Rep("U+2500", 28)),
         Part(-1, "lit", Lit(<<"\n", "U+23ED", " ", "U+10E8", "U+10D4", "U+10DB", "U+10D3",
                 "U+10D4", "U+10D2", "U+10D8", ":", " ">>)),
         Part(-1, "next_session", Esc(next_session)),
         Part(-1, "lit", Lit(<<"\n", "U+1F916", " ", "_", "A", "l", "i", "b", "a", "b", "a",
                 " ", "S", "c", "o", "u", "t", " ", "B", "o", "t", "_">>))>>

\* line 32
NoProductsNotice ==
    <<Part(-2, "lit", Lit(<<"U+26A0", "U+FE0F", " ", "N", "o", " ", "p", "r", "o", "d", "u",
            "c", "t", "s", " ", "f", "o", "u", "n", "d", " ", "t", "h", "i", "s", " ", "s", "e",
            "s", "s", "i", "o", "n", "\\", ".", " ", "W", "i", "l", "l", " ", "t", "r", "y",
            " ", "n", "e", "x", "t", " ", "t", "i", "m", "e", "\\", "!">>))>>

\* the concatenation of s[lo..hi], by halves
RECURSIVE JoinRange(_, _, _)
JoinRange(s, lo, hi) ==
    IF lo > hi THEN <<>>
    ELSE IF lo = hi THEN s[lo]
    ELSE LET mid == (lo + hi) \div 2
         IN JoinRange(s, lo, mid) \o JoinRange(s, mid + 1, hi)

\* lines 52-79 for every listing
Entries(products) == [k \in 1..Len(products) |-> Entry(k, products[k])]

RECURSIVE BuildLoop(_, _, _, _)

\* a loop that never flushes: every entry is appended to the one buffer
BuildLoopNoSplit(products, i, current_msg, sent) ==
    [sent |-> sent,
     current_msg |-> current_msg \o JoinRange(Entries(products), i, Len(products))]

\* a loop that sends the buffer and starts the next one empty: the entry
\* that did not fit is lost
BuildLoopLosingEntry(products, i, current_msg, sent) ==
    LET n == Len(products)
        entries == Entries(products)
        lens == [k \in 1..n |-> PLen(entries[k])]
        start == PLen(current_msg)
        over == {j \in i..n : start + SumRange(lens, i, j) > SoftLimit}
    IN IF over = {}
       THEN [sent |-> sent, current_msg |-> current_msg \o JoinRange(entries, i, n)]
       ELSE LET j == CHOOSE x \in over : \A y \in over : x <= y
            IN BuildLoop(products, j + 1, <<>>,
                         Append(sent, current_msg \o JoinRange(entries, i, j - 1)))

\* lines 51-86: the loop over the listings from the i-th on; sent holds the
\* buffers handed to _send_message so far.  The entries are appended to
\* current_msg up to the first one, the j-th, with which the buffer would
\* exceed the soft limit (line 82); there the buffer is sent and the j-th
\* entry starts the next one (lines 83-84).
BuildLoop(products, i, current_msg, sent) ==
    LET n == Len(products)
        entries == Entries(products)
        lens == [k \in 1..n |-> PLen(entries[k])]
        start == PLen(current_msg)
        over == {j \in i..n : start + SumRange(lens, i, j) > SoftLimit}
    IN IF over = {}
       THEN [sent |-> sent, current_msg |-> current_msg \o JoinRange(entries, i, n)]
       ELSE LET j == CHOOSE x \in over : \A y \in over : x <= y
            IN BuildLoop(products, j + 1, entries[j],
                         Append(sent, current_msg \o JoinRange(entries, i, j - 1)))

\* a digest without the test of line 31: header and footer, no notice
MessagesNoNotice(products, session_label) ==
    LET r == BuildLoop(products, 1, Header(session_label, Len(products)), <<>>)
    IN Append(r.sent, r.current_msg \o Footer(session_label))

\* the texts send_daily_digest hands to _send_message, in order.  What
\* _send_message returns does not change what is built, so the buffers are
\* computed ahead of the sends.
Messages(products, session_label) ==
    IF products = <<>> THEN <<NoProductsNotice>>
    ELSE LET r == BuildLoop(products, 1, Header(session_label, Len(products)), <<>>)
         IN Append(r.sent, r.current_msg \o Footer(session_label))

(***************************************************************************)
(* send_daily_digest as a process: each buffer is handed to _send_message, *)
(* which POSTs it and, on a status other than 200, POSTs it once more      *)
(* as HTML without the backslashes.  A POST ends with status 200, with     *)
(* another status (here "204" and "400") or with an exception of the       *)
(* transport ("exc").  send_error_alert hands its one message to           *)
(* _send_message the same way.                                             *)
(***************************************************************************)
PostOutcomes == {"200", "204", "400", "exc"}

\* lines 113 and 122: resp.status_code == 200
Succeeded(outcome) == outcome = "200"

\* the handler of an exception of the first or the second POST, which
\* leaves _send_message
OnPostExceptionUncaught(attempt) == [propagates |-> TRUE, result |-> FALSE]

\* lines 123-125: except Exception around both POSTs
OnPostException(attempt) == [propagates |-> FALSE, result |-> FALSE]

\* line 130: the text of send_error_alert
AlertText(error_msg) ==
    <<Part(-3, "lit", Lit(<<"U+26A0", "U+FE0F", " ", "*", "A", "l", "i", "b", "a", "b", "a", " ", "S", "c", "o", "u", "t", " ", "E", "r", "r", "o", "r", "*", "\n", "\n">>)),
      Part(-3, "error_msg", Esc(error_msg))>>

\* the messages of main.py lines 110 and 118
AlertMessages ==
    {Lit(<<"N", "o", " ", "p", "r", "o", "d", "u", "c", "t", "s", " ", "f", "o", "u", "n", "d", " ", "t", "h", "i", "s", " ", "s", "e", "s", "s", "i", "o", "n", ".">>),
     Lit(<<"S", "c", "r", "a", "p", "i", "n", "g", " ", "f", "a", "i", "l", "e", "d", ":", " ", "b", "o", "o", "m">>)}

\* lines 119-120: the payload of the retry
StripParts(parts) == [i \in 1..Len(parts) |-> [parts[i] EXCEPT !.t = StripBackslashes(@)]]

PlainProduct ==
    Ranked(Lit(<<"L", "a", "m", "p">>), KnownPrice, Lit(<<"h", "t", "t", "p", "s", ":", "/", "/", "a">>),
           Lit(<<"A", "l", "i", "b", "a", "b", "a">>), "lamps", 65, FallbackReason,
           Empty, Empty, Empty, {})

FullProduct ==
    Ranked(Lit(<<"T", "o", "y">>), SeeListing, Lit(<<"h", "t", "t", "p", "s", ":", "/", "/", "b">>),
           Lit(<<"D", "H", "g", "a", "t", "e">>), "kids_toys", 100, Lit(<<"H", "o", "t", "!">>),
           Lit(<<"1", "0">>), Lit(<<"5", "+">>), Lit(<<"C", "o", ".">>), {})

\* an entry of more than 3600 characters: it fits a buffer with the header,
\* and two of them never share a buffer
LongProduct == [PlainProduct EXCEPT !.reason = Rep("a", 3600)]

\* an entry of more than 5000 characters
HugeProduct == [PlainProduct EXCEPT !.reason = Rep("a", 5000)]

\* a dict that holds a score and nothing else
BareProduct ==
    [PlainProduct EXCEPT !.absent = {"name", "price", "link", "source", "category", "reason",
                                     "min_order", "orders_or_reviews", "supplier"}]

\* the shortest entries: 45 to 47 characters, less than the footer
TinyProduct ==
    Ranked(Lit(<<"a", "a">>), Empty, Empty, Empty, "", 0, Empty, Empty, Empty, Empty, {})

\* 161 of the shortest entries: under the default label the first 80 fill
\* the first buffer and the other 81 the second one up to 3788 characters
ManyTinyProducts == [i \in 1..161 |-> TinyProduct]

DigestProductSet == {PlainProduct, LongProduct}

NoonLabel == Lit(<<"U+1F324", " ", "U+10E8", "U+10E3", "U+10D0", "U+10D3", "U+10E6", "U+10D8", "U+10E1", " ", "U+10E1", "U+10D4", "U+10DA", "U+10D4", "U+10E5", "U+10EA", "U+10D8", "U+10D0">>)

\* a label longer than the soft limit
HugeLabel == Rep("L", 4000)

\* the texts of at most MaxText characters over a letter, a reserved
\* character and the backslash
SmallTexts == {Lit(s) : s \in SeqsUpTo({"a", ".", "\\"}, MaxText)}

EscapedFields == {"name", "price", "min_order", "orders_or_reviews", "supplier", "reason", "source"}

\* the calls of the model: the short sequences of the listings above under
\* the default label, one listing or none under every label, the many
\* shortest entries, and one listing (or the label) with each small text in
\* each escaped field
DigestCalls ==
    {[products |-> s, label |-> Empty] : s \in SeqsUpTo(DigestProductSet, MaxDigest)}
    \cup {[products |-> s, label |-> l] :
            s \in {<<>>, <<PlainProduct>>, <<FullProduct>>, <<LongProduct>>, <<HugeProduct>>,
                   <<BareProduct>>},
            l \in {Empty, NoonLabel, HugeLabel}}
    \cup {[products |-> ManyTinyProducts, label |-> Empty]}
    \cup {[products |-> <<[PlainProduct EXCEPT ![f] = t]>>, label |-> Empty] :
            f \in EscapedFields, t \in SmallTexts}
    \cup {[products |-> <<[PlainProduct EXCEPT !.link = t]>>, label |-> t] : t \in SmallTexts}

InitDigest ==
    /\ IdleRun
    /\ IdleExtract
    /\ IdleFallback
    /\ IdleLLM
    /\ IdleScrape
    /\ \/ /\ dg_fn = "send_daily_digest"
          /\ \E c \in DigestCalls : dg_products = c.products /\ dg_label = c.label
          /\ dg_error = Empty
       \/ /\ dg_fn = "send_error_alert"
          /\ dg_error \in AlertMessages
          /\ dg_products = <<>>
          /\ dg_label = Empty
    /\ dg_pc = "call"
    /\ dg_msgs = <<>>
    /\ dg_sent = 0
    /\ dg_posts = <<>>
    /\ dg_results = <<>>
    /\ dg_ret = "none"

\* a return that is true only when every buffer was sent
DigestReturnAll(results) == \A i \in 1..Len(results) : results[i]

\* lines 97-98: success is what the last _send_message returned
DigestReturn(results) == results[Len(results)]

\* lines 31-95 and 130: the buffers of the call
DgBuild ==
    /\ dg_pc = "call"
    /\ dg_msgs' = IF dg_fn = "send_error_alert" THEN <<AlertText(dg_error)>>
                  ELSE Messages(dg_products, dg_label)
    /\ dg_pc' = "send"
    /\ UNCHANGED <<dg_fn, dg_error, dg_products, dg_label, dg_sent, dg_posts, dg_results,
                   dg_ret, others_dg>>

\* lines 83/97/131 and 111-117: the next buffer is handed to _send_message,
\* which POSTs it as MarkdownV2
DgPost ==
    /\ dg_pc = "send"
    /\ dg_sent < Len(dg_msgs)
    /\ dg_sent' = dg_sent + 1
    /\ \E outcome \in PostOutcomes :
          /\ dg_posts' = Append(dg_posts, [msg |-> dg_sent', mode |-> "MarkdownV2",
                                           outcome |-> outcome])
          /\ IF outcome = "exc"
             THEN IF OnPostException(1).propagates
                  THEN dg_pc' = "raised" /\ UNCHANGED dg_results
                  ELSE /\ dg_pc' = "send"
                       /\ dg_results' = Append(dg_results, OnPostException(1).result)
             ELSE IF Succeeded(outcome)
                  THEN dg_pc' = "send" /\ dg_results' = Append(dg_results, TRUE)
                  ELSE dg_pc' = "retry" /\ UNCHANGED dg_results
    /\ UNCHANGED <<dg_fn, dg_error, dg_products, dg_label, dg_msgs, dg_ret, others_dg>>

\* lines 118-125: the retry as HTML, and what _send_message returns
DgRetry ==
    /\ dg_pc = "retry"
    /\ \E outcome \in PostOutcomes :
          /\ dg_posts' = Append(dg_posts, [msg |-> dg_sent, mode |-> "HTML", outcome |-> outcome])
          /\ IF outcome = "exc"
             THEN IF OnPostException(2).propagates
                  THEN dg_pc' = "raised" /\ UNCHANGED dg_results
                  ELSE /\ dg_pc' = "send"
                       /\ dg_results' = Append(dg_results, OnPostException(2).result)
             ELSE dg_pc' = "send" /\ dg_results' = Append(dg_results, Succeeded(outcome))
    /\ UNCHANGED <<dg_fn, dg_error, dg_products, dg_label, dg_msgs, dg_sent, dg_ret, others_dg>>

\* lines 33, 97-98 and 131
DgReturn ==
    /\ dg_pc = "send"
    /\ dg_sent = Len(dg_msgs)
    /\ dg_ret' = IF dg_fn = "send_error_alert"
                 THEN IF dg_results[1] THEN "true" ELSE "false"
                 ELSE IF dg_products = <<>> THEN "false"
                 ELSE IF DigestReturn(dg_results) THEN "true" ELSE "false"
    /\ dg_pc' = "done"
    /\ UNCHANGED <<dg_fn, dg_error, dg_products, dg_label, dg_msgs, dg_sent, dg_posts,
                   dg_results, others_dg>>

\* the messages handed to _send_message so far
Handed == SubSeq(dg_msgs, 1, dg_sent)

\* lines 106-120: the text of a POST
PostText(post) ==
    IF post.mode = "HTML" THEN StripParts(dg_msgs[post.msg]) ELSE dg_msgs[post.msg]

NextDigest ==
    \/ DgBuild
    \/ DgPost
    \/ DgRetry
    \/ DgReturn

SpecDigest == InitDigest /\ [][NextDigest]_vars

(***************************************************************************)
(* Claims about send_daily_digest.                                         *)
(***************************************************************************)
\* C8: every message handed to the send primitive is within the transport's
\* cap of 4096 characters.
C8_WithinHardCap ==
    \A k \in 1..dg_sent : PLen(dg_msgs[k]) <= HardCap

\* the lengths of the entries, in order
C9_EntryLens == [i \in 1..Len(dg_products) |-> PLen(Entry(i, dg_products[i]))]
C9_HeaderLen == PLen(Header(dg_label, Len(dg_products)))
C9_FooterLen == PLen(Footer(dg_label))

\* the largest of s[lo..hi], by halves
RECURSIVE C9_MaxRange(_, _, _)
C9_MaxRange(s, lo, hi) ==
    IF lo = hi THEN s[lo]
    ELSE LET mid == (lo + hi) \div 2
         IN Max(C9_MaxRange(s, lo, mid), C9_MaxRange(s, mid + 1, hi))

C9_Case ==
    /\ dg_pc = "done"
    /\ dg_products # <<>>
    /\ C9_HeaderLen + SumSeq(C9_EntryLens) > SoftLimit

\* C9 (as stated): when the header and the entries together exceed 3800
\* characters, more than one message is emitted and each of them, the final
\* one with the footer included, is shorter than 3800 plus the longest entry.
C9_Original ==
    C9_Case =>
        LET lens == C9_EntryLens
            longest == C9_MaxRange(lens, 1, Len(lens))
        IN /\ dg_sent > 1
           /\ \A k \in 1..dg_sent : PLen(dg_msgs[k]) < SoftLimit + longest

\* C9 (amended): when the header and the entries together exceed 3800
\* characters, more than one message is emitted and each of them is at most
\* 3800 plus the longest of the header, the footer and the single entries.
C9_Amended ==
    C9_Case =>
        LET lens == C9_EntryLens \o <<C9_HeaderLen, C9_FooterLen>>
            longest == C9_MaxRange(lens, 1, Len(lens))
        IN /\ dg_sent > 1
           /\ \A k \in 1..dg_sent : PLen(dg_msgs[k]) <= SoftLimit + longest

\* two long entries under the default label: the header with the first
\* entry, then the second entry with the footer
C9_Witness ==
    /\ C9_Case
    /\ dg_products = <<LongProduct, LongProduct>>
    /\ dg_label = Empty
    /\ dg_sent = 2
    /\ PLen(dg_msgs[1]) > PLen(Entry(1, LongProduct))
    /\ PLen(dg_msgs[2]) > PLen(Entry(2, LongProduct))

Reserved == Range(ReservedChars)

\* the backslashes right before position k
RECURSIVE BackslashesBefore(_, _)
BackslashesBefore(c, k) ==
    IF k <= 1 THEN 0
    ELSE IF c[k - 1] = "\\" THEN 1 + BackslashesBefore(c, k - 1) ELSE 0

\* every reserved character of the text is preceded by exactly one escape
\* character: read from the left, where a backslash escapes the character
\* after it, one backslash is left to escape it
EscapedOnce(t) ==
    LET c == Expand(t)
    IN \A k \in 1..Len(c) : c[k] \in Reserved => BackslashesBefore(c, k) % 2 = 1

\* C10: in every digest message, each reserved character that comes from
\* name, price, min_order, orders_or_reviews, supplier, reason, source or the
\* session label is preceded by exactly one escape character, whatever the
\* field holds (a backslash included), and the link is inserted as it is.
C10_FieldsEscapedLinkRaw ==
    \A k \in 1..dg_sent :
        \A j \in 1..Len(dg_msgs[k]) :
            LET part == dg_msgs[k][j]
            IN /\ part.f \in EscapedFields \cup {"label"} => EscapedOnce(part.t)
               /\ part.f = "link" => part.t = DGet(dg_products[part.seg], "link", Lit(<<"#">>))

(***************************************************************************)
(* run (alibaba-scout/main.py) with the ranker it imports as src.ranker    *)
(* (alibaba-scout/src/ranker.py).  run_cfg is get_config(), run_args the   *)
(* command line; run_calls lists the calls run made, run_exit how it       *)
(* ended: "none" while it runs, "return", the status of sys.exit, or the   *)
(* exception that left it.                                                 *)
(***************************************************************************)
DefaultProductCount == 5

\* the parameters of the ranker's functions (ranker.py lines 51 and 115)
RankProductsParams == {"products", "api_key", "model"}
FallbackParams == {"products"}

\* a call binds its keywords when each of them names a parameter; when one
\* does not, Python raises TypeError at the call and the body never runs
Binds(params, keywords) == keywords \subseteq params

\* ranker.py lines 115-149: at most 3 listings of a category, 10 in all
ScoutFallback(products) ==
    SelectDiverse(SortByScoreDesc([i \in 1..Len(products) |-> Scored(products[i])]), <<>>, 3, 10)

\* ranker.py lines 51-112: what rank_products may return, the empty list on
\* every failure
ScoutRankResults(products) == {<<>>, <<Scored(products[1])>>}

\* line 100
Count == IF run_args.count # 0 THEN run_args.count ELSE run_cfg.product_count

\* an alert as soon as one of the two credentials is configured
HasTelegramEither == run_cfg.telegram_bot_token \/ run_cfg.telegram_chat_id

\* lines 109 and 117
HasTelegram == run_cfg.telegram_bot_token /\ run_cfg.telegram_chat_id

Called(fn, raised, out) == [fn |-> fn, raised |-> raised, out |-> out]

\* what scrape_all_categories returns
RunListings ==
    {Named(s) : s \in {<<>>,
                       <<Product(Empty, KnownPrice, Empty, Lit(<<"A">>), "lamps", Empty, Empty,
                                 Empty, Empty)>>,
                       <<Product(Empty, SeeListing, Empty, Lit(<<"A">>), "lamps", Empty, Empty,
                                 Empty, Empty),
                         Product(Empty, KnownPrice, Empty, Lit(<<"D">>), "telescopes", Empty,
                                 Empty, SomeText, Empty)>>}}

InitRun ==
    /\ IdleFallback
    /\ IdleLLM
    /\ IdleScrape
    /\ IdleDigest
    /\ IdleExtract
    /\ run_cfg \in [openai_api_key : BOOLEAN, telegram_bot_token : BOOLEAN,
                    telegram_chat_id : BOOLEAN, product_count : {DefaultProductCount}]
    /\ run_args \in [count : 0..MaxTopN, scrape_only : BOOLEAN, dry_run : BOOLEAN]
    /\ run_pc = "start"
    /\ run_products = <<>>
    /\ run_top = <<>>
    /\ run_calls = <<>>
    /\ run_exit = "none"

\* lines 105-106 and 113: the scrape returns
RunScrape ==
    /\ run_pc = "start"
    /\ \E products \in RunListings : run_products' = products
    /\ run_pc' = "scraped"
    /\ UNCHANGED <<run_cfg, run_args, run_top, run_calls, run_exit, others_run>>

\* lines 107-111: the scrape raises
RunScrapeRaises ==
    /\ run_pc = "start"
    /\ run_calls' = IF HasTelegram
                    THEN Append(run_calls, Called("send_error_alert", FALSE, <<>>))
                    ELSE run_calls
    /\ run_exit' = "1"
    /\ run_pc' = "done"
    /\ UNCHANGED <<run_cfg, run_args, run_products, run_top, others_run>>

\* lines 115-119
RunNoProducts ==
    /\ run_pc = "scraped"
    /\ run_products = <<>>
    /\ run_calls' = IF HasTelegram
                    THEN Append(run_calls, Called("send_error_alert", FALSE, <<>>))
                    ELSE run_calls
    /\ run_exit' = "0"
    /\ run_pc' = "done"
    /\ UNCHANGED <<run_cfg, run_args, run_products, run_top, others_run>>

\* lines 121-124
RunScrapeOnly ==
    /\ run_pc = "scraped"
    /\ run_products # <<>>
    /\ run_args.scrape_only
    /\ run_calls' = run_calls \o <<Called("print_products", FALSE, <<>>),
                                   Called("save_results", FALSE, <<>>)>>
    /\ run_exit' = "return"
    /\ run_pc' = "done"
    /\ UNCHANGED <<run_cfg, run_args, run_products, run_top, others_run>>

\* lines 129-134: the call of rank_products, with the keywords model and
\* top_n
RunRankLLM ==
    /\ run_pc = "scraped"
    /\ run_products # <<>>
    /\ ~run_args.scrape_only
    /\ run_cfg.openai_api_key
    /\ IF ~Binds(RankProductsParams, {"model", "top_n"})
       THEN /\ run_calls' = Append(run_calls, Called("rank_products", TRUE, <<>>))
            /\ run_exit' = "TypeError"
            /\ run_pc' = "done"
            /\ UNCHANGED run_top
       ELSE \E out \in ScoutRankResults(run_products) :
               /\ run_calls' = Append(run_calls, Called("rank_products", FALSE, out))
               /\ run_top' = out
               /\ run_pc' = IF out = <<>> THEN "fallback" ELSE "output"
               /\ UNCHANGED run_exit
    /\ UNCHANGED <<run_cfg, run_args, run_products, others_run>>

\* lines 136 and 139: the call of rank_products_fallback, with the keyword
\* top_n, when rank_products returned nothing or no key is configured
RunFallback ==
    /\ \/ run_pc = "fallback"
       \/ /\ run_pc = "scraped"
          /\ run_products # <<>>
          /\ ~run_args.scrape_only
          /\ ~run_cfg.openai_api_key
    /\ IF ~Binds(FallbackParams, {"top_n"})
       THEN /\ run_calls' = Append(run_calls, Called("rank_products_fallback", TRUE, <<>>))
            /\ run_exit' = "TypeError"
            /\ run_pc' = "done"
            /\ UNCHANGED run_top
       ELSE /\ run_calls' = Append(run_calls, Called("rank_products_fallback", FALSE,
                                                     ScoutFallback(run_products)))
            /\ run_top' = ScoutFallback(run_products)
            /\ run_pc' = "output"
            /\ UNCHANGED run_exit
    /\ UNCHANGED <<run_cfg, run_args, run_products, others_run>>

\* No call of lines 130, 136 and 139 binds, so no run gets to the output and
\* delivery of lines 141-163.
NextRun ==
    \/ RunScrape
    \/ RunScrapeRaises
    \/ RunNoProducts
    \/ RunScrapeOnly
    \/ RunRankLLM
    \/ RunFallback

SpecRun == InitRun /\ [][NextRun]_vars

(***************************************************************************)
(* Claims about run.                                                       *)
(***************************************************************************)
C5_Calls(fn) == {i \in 1..Len(run_calls) : run_calls[i].fn = fn}

C5_LLMReturnedEmpty ==
    \E i \in C5_Calls("rank_products") : ~run_calls[i].raised /\ run_calls[i].out = <<>>

\* C5: in every run that reaches the ranking step a failure of the ranking
\* is never fatal: no run ends in the ranking step, and a run that is past
\* it has invoked the fallback exactly when no ranking credential is
\* configured or the LLM strategy returned an empty sequence, and then
\* carries the fallback's result to the output.
C5_RankingFailureNeverFatal ==
    /\ \A i \in C5_Calls("rank_products") \cup C5_Calls("rank_products_fallback") :
          ~run_calls[i].raised
    /\ run_exit # "TypeError"
    /\ run_pc = "output" =>
          /\ C5_Calls("rank_products_fallback") # {}
                <=> (~run_cfg.openai_api_key \/ C5_LLMReturnedEmpty)
          /\ C5_Calls("rank_products_fallback") # {} => run_top = ScoutFallback(run_products)

(***************************************************************************)
(* Claims about _send_message and the calls of it.                         *)
(***************************************************************************)
\* the POSTs of the m-th message, in order
C11_Posts(m) == SelectSeq(dg_posts, LAMBDA p : p.msg = m)

C11_Backslashes(t) ==
    SumSeq([i \in 1..Len(t) |->
               t[i].n * Cardinality({k \in 1..Len(t[i].u) : t[i].u[k] = "\\"})])

\* the retry of the m-th message is sent as HTML, and its text is the
\* message without its backslashes
C11_RetryPayload(m, post) ==
    /\ post.mode = "HTML"
    /\ \A j \in 1..Len(dg_msgs[m]) :
          LET orig == dg_msgs[m][j].t
              text == StripBackslashes(orig)
          IN /\ C11_Backslashes(text) = 0
             /\ TLen(text) = TLen(orig) - C11_Backslashes(orig)
             /\ C11_Backslashes(orig) = 0 => TEq(text, orig)

\* a success status as HTTP has it: any 2xx
C11_Success2xx(outcome) == outcome \in {"200", "204"}

C11_Success200(outcome) == outcome = "200"

C11_AtMostTwoPosts(Success(_)) ==
    \A m \in 1..dg_sent :
        LET posts == C11_Posts(m)
            first == posts[1]
            last == posts[Len(posts)]
        IN /\ Len(posts) \in {1, 2}
           /\ first.mode = "MarkdownV2"
           /\ PostText(first) = dg_msgs[m]
           /\ Len(posts) = 2 =>
                 /\ first.outcome # "exc" /\ ~Success(first.outcome)
                 /\ C11_RetryPayload(m, last)
           \* _send_message has returned
           /\ m <= Len(dg_results) =>
                 /\ Len(posts) = 2 <=> (first.outcome # "exc" /\ ~Success(first.outcome))
                 /\ dg_results[m] <=> (last.outcome # "exc" /\ Success(last.outcome))

\* C11 (as stated): for each message _send_message issues at most two POSTs;
\* the second is issued if and only if the first returned a non-success
\* HTTP status, it is sent as HTML with every backslash removed from the
\* text, and the call returns success exactly when the last POST issued
\* returned a success status.
C11_Original == C11_AtMostTwoPosts(C11_Success2xx)

\* C11 (amended): the same with status 200 as the one success status: the
\* second POST is issued if and only if the first returned a status other
\* than 200, and the call returns success exactly when the last POST issued
\* returned status 200.
C11_Amended == C11_AtMostTwoPosts(C11_Success200)

\* one message, rejected as MarkdownV2 and accepted as HTML
C11_Witness ==
    /\ dg_pc = "done"
    /\ dg_products = <<PlainProduct>>
    /\ Len(dg_posts) = 2
    /\ dg_posts[1].outcome = "400"
    /\ dg_posts[2].outcome = "200"
    /\ dg_posts[2].mode = "HTML"
    /\ dg_ret = "true"

\* C12: a digest split into several buffers has every buffer sent, in
\* order, whatever became of the earlier ones, and the call returns what
\* sending the final buffer returned.
C12_AllSentLastDecides ==
    /\ \A i, j \in 1..Len(dg_posts) : i < j => dg_posts[i].msg <= dg_posts[j].msg
    /\ (dg_pc = "done" /\ dg_fn = "send_daily_digest" /\ Len(dg_msgs) > 1) =>
          /\ dg_sent = Len(dg_msgs)
          /\ \A m \in 1..Len(dg_msgs) :
                /\ C11_Posts(m) # <<>>
                /\ PostText(C11_Posts(m)[1]) = dg_msgs[m]
          /\ Len(dg_results) = Len(dg_msgs)
          /\ dg_ret = IF dg_results[Len(dg_msgs)] THEN "true" ELSE "false"

\* two buffers: the first one fails twice, the second one is accepted
C12_Witness ==
    /\ dg_pc = "done"
    /\ dg_products = <<LongProduct, LongProduct>>
    /\ dg_results = <<FALSE, TRUE>>
    /\ dg_posts[1].outcome = "400"
    /\ dg_posts[2].outcome = "400"
    /\ dg_ret = "true"

\* C13: an exception of the first POST or of the retry is caught in
\* _send_message and becomes the result false; it reaches neither
\* send_daily_digest nor send_error_alert, which go on and return.
C13_ExceptionsCaught ==
    /\ dg_pc # "raised"
    /\ \A m \in 1..Len(dg_results) :
          LET posts == C11_Posts(m)
          IN posts[Len(posts)].outcome = "exc" => ~dg_results[m]
    /\ dg_pc = "done" => dg_ret \in {"true", "false"}

\* an alert whose first POST is rejected and whose retry raises
C13_Witness ==
    /\ dg_pc = "done"
    /\ dg_fn = "send_error_alert"
    /\ Len(dg_posts) = 2
    /\ dg_posts[1].outcome = "400"
    /\ dg_posts[2].outcome = "exc"
    /\ dg_ret = "false"

\* C14: with no listing send_daily_digest hands one message, the notice, to
\* _send_message and returns false, whatever the send returned.
C14_EmptyDigest ==
    (dg_pc = "done" /\ dg_fn = "send_daily_digest" /\ dg_products = <<>>) =>
        /\ dg_ret = "false"
        /\ dg_sent = 1
        /\ dg_msgs = <<NoProductsNotice>>
        /\ \A i \in 1..Len(dg_posts) : dg_posts[i].msg = 1

\* the notice was accepted, and the call returns false all the same
C14_Witness ==
    /\ dg_pc = "done"
    /\ dg_fn = "send_daily_digest"
    /\ dg_products = <<>>
    /\ Len(dg_posts) = 1
    /\ dg_posts[1].outcome = "200"
    /\ dg_results = <<TRUE>>
    /\ dg_ret = "false"

(***************************************************************************)
(* The extraction strategies of scrape_alibaba and scrape_dhgate           *)
(* (src/scraper.py).  A response is what the selectors and the patterns    *)
(* find in it: the cards, the anchors of the link sweep and the JSON       *)
(* blobs the patterns match.  An attribute is absent, present without a    *)
(* value (selectolax gives None) or a string; a JSON value is absent, a    *)
(* string, an integer, null or a price object.                             *)
(***************************************************************************)
Absent == [k |-> "absent", v |-> Empty]
NoValue == [k |-> "none", v |-> Empty]
Some(t) == [k |-> "str", v |-> t]
IntVal(n) == [k |-> "int", v |-> Str(n)]
PriceObj(priceStr) == [k |-> "dict", v |-> priceStr]

\* text.startswith(prefix)
StartsWith(t, prefix) ==
    LET c == Expand(t)
    IN Len(c) >= Len(prefix) /\ SubSeq(c, 1, Len(prefix)) = prefix

HttpPrefix == <<"h", "t", "t", "p">>
SlashSlash == <<"/", "/">>
HttpsColon == Lit(<<"h", "t", "t", "p", "s", ":">>)
AlibabaOrigin == Lit(<<"h", "t", "t", "p", "s", ":", "/", "/", "w", "w", "w", ".",
                       "a", "l", "i", "b", "a", "b", "a", ".", "c", "o", "m">>)
DhgateOrigin == Lit(<<"h", "t", "t", "p", "s", ":", "/", "/", "w", "w", "w", ".",
                      "d", "h", "g", "a", "t", "e", ".", "c", "o", "m">>)
AlibabaProduct == Lit(<<"A", "l", "i", "b", "a", "b", "a", " ", "P", "r", "o", "d", "u", "c", "t">>)
DhgateProduct == Lit(<<"D", "H", "g", "a", "t", "e", " ", "P", "r", "o", "d", "u", "c", "t">>)
NameLimit == 120

\* a or b on strings
OrElse(a, b) == IF Truthy(a) THEN a ELSE b

\* lines 100-101, 118-119, 172-173: an href of Alibaba that does not start
\* with "http"
AlibabaLink(href) ==
    IF StartsWith(href, HttpPrefix) THEN href
    ELSE IF StartsWith(href, SlashSlash) THEN HttpsColon \o href
    ELSE AlibabaOrigin \o href

\* lines 201-202, 219-220: an href of DHgate that does not start with "http"
DhgateLink(href) ==
    IF StartsWith(href, HttpPrefix) THEN href
    ELSE DhgateOrigin \o href

\* attributes.get(name, default) of an attribute that is a string or absent
AttrOr(attr, default) == IF attr.k = "absent" THEN default ELSE attr.v

\* lines 99-103: one anchor of the link sweep of Alibaba
AlibabaAnchor(a, category) ==
    Product(OrElse(Take(a.text, NameLimit), AlibabaProduct), SeeListing,
            AlibabaLink(AttrOr(a.href, Empty)), "Alibaba", category,
            Empty, Empty, Empty, Empty)

\* lines 96-104: the link sweep of Alibaba
AlibabaSweep(anchors, category, max_items) ==
    LET seen == Slice(anchors, max_items)
    IN Slice([i \in 1..Len(seen) |-> AlibabaAnchor(seen[i], category)], max_items)

\* lines 108-112 and 209-213: the name of a card (title attribute of the
\* title element, else its text, else the default)
CardName(card, default) ==
    LET name == IF card.has_title
                THEN OrElse(IF card.title.k = "str" THEN card.title.v ELSE Empty,
                            card.text)
                ELSE Empty
    IN OrElse(Take(name, NameLimit), default)

\* text of an element if there is one, else the default
TextOr(el, default) == IF el.k = "absent" THEN default ELSE el.v

\* lines 107-141: one card of Alibaba, the listings it appends (none or one)
AlibabaCard(card, category) ==
    LET link == IF card.href.k = "absent" THEN Empty ELSE AlibabaLink(card.href.v)
    IN IF Truthy(link)
       THEN <<Product(CardName(card, AlibabaProduct), TextOr(card.price, SeeListing),
                      link, "Alibaba", category, TextOr(card.img, Empty),
                      TextOr(card.moq, Empty), Empty, TextOr(card.supplier, Empty))>>
       ELSE <<>>

\* lines 80-143: _parse_alibaba_html
ParseAlibabaHtml(resp, category, max_items) ==
    IF resp.cards = <<>> THEN AlibabaSweep(resp.anchors, category, max_items)
    ELSE LET seen == Slice(resp.cards, max_items)
         IN Flatten([i \in 1..Len(seen) |-> AlibabaCard(seen[i], category)])

\* item.get(key, default)
JGet(item, key, default) == IF item.f[key].k = "absent" THEN default ELSE item.f[key]

\* str(value) of a JSON value
PyStr(val) == IF val.k = "none" THEN Lit(<<"N", "o", "n", "e">>) ELSE val.v

\* bool(value) of a JSON value
JTruthy(val) ==
    CASE val.k = "str" -> Truthy(val.v)
      [] val.k = "int" -> val.v # Str(0)
      [] val.k = "dict" -> TRUE
      [] OTHER -> FALSE

\* lines 166-179: one item of the embedded JSON, the listings it appends
\* or the exception it raises
AlibabaItem(item, category) ==
    IF item.k # "dict" THEN [exc |-> "none", products |-> <<>>]
    ELSE LET name == JGet(item, "title", JGet(item, "name", JGet(item, "subject", Some(Empty))))
             price0 == JGet(item, "price", JGet(item, "priceStr", Some(SeeListing)))
             price == IF price0.k = "dict" THEN Some(price0.v) ELSE price0
             link == JGet(item, "detailUrl", JGet(item, "href", JGet(item, "productUrl", Some(Empty))))
             img == JGet(item, "image", JGet(item, "imgUrl", Some(Empty)))
         IN IF name.k # "str" THEN [exc |-> "TypeError", products |-> <<>>]
            ELSE IF JTruthy(link) /\ link.k # "str"
            THEN [exc |-> "AttributeError", products |-> <<>>]
            ELSE IF Truthy(Take(name.v, NameLimit)) /\ JTruthy(link)
            THEN [exc |-> "none",
                  products |-> <<Product(Take(name.v, NameLimit), PyStr(price),
                                         AlibabaLink(link.v), "Alibaba", category,
                                         PyStr(img), Empty, Empty, Empty)>>]
            ELSE [exc |-> "none", products |-> <<>>]

\* lines 165-179: the loop over the items of one blob; an item that raises
\* ends it
RECURSIVE ItemsLoop(_, _)
ItemsLoop(items, category) ==
    IF items = <<>> THEN [exc |-> "none", products |-> <<>>]
    ELSE LET r == AlibabaItem(Head(items), category)
         IN IF r.exc # "none" THEN r
            ELSE LET rest == ItemsLoop(Tail(items), category)
                 IN [exc |-> rest.exc, products |-> r.products \o rest.products]

UnwrapKeys == {"offerList", "itemList", "data", "result"}

\* lines 158-163: the items of a decoded blob
BlobItems(blob) ==
    IF blob.k = "list" THEN blob.items
    ELSE IF blob.k = "dict" /\ blob.key \in UnwrapKeys THEN blob.items
    ELSE <<>>

\* lines 153-181: the loop over the patterns that matched; a TypeError or
\* a JSONDecodeError goes on with the next pattern, another exception
\* leaves the function
RECURSIVE PatternsLoop(_, _, _, _)
PatternsLoop(blobs, products, category, max_items) ==
    IF blobs = <<>> THEN [exc |-> "none", products |-> products]
    ELSE LET blob == Head(blobs)
         IN IF blob.k = "invalid"
            THEN PatternsLoop(Tail(blobs), products, category, max_items)
            ELSE LET r == ItemsLoop(Slice(BlobItems(blob), max_items), category)
                 IN IF r.exc \in {"none", "TypeError"}
                    THEN PatternsLoop(Tail(blobs), products \o r.products, category, max_items)
                    ELSE [exc |-> r.exc, products |-> <<>>]

\* lines 146-183: _parse_alibaba_json
ParseAlibabaJson(resp, category, max_items) ==
    LET r == PatternsLoop(resp.blobs, <<>>, category, max_items)
    IN [exc |-> r.exc, products |-> Slice(r.products, max_items)]

\* lines 62-77: scrape_alibaba on a response
ScrapeAlibabaPage(resp, category, max_items) ==
    IF resp.status # "ok" THEN <<>>
    ELSE LET html == ParseAlibabaHtml(resp, category, max_items)
         IN IF html # <<>> THEN Slice(html, max_items)
            ELSE LET json == ParseAlibabaJson(resp, category, max_items)
                 IN IF json.exc # "none" THEN <<>>
                    ELSE Slice(json.products, max_items)

\* lines 200-204: one anchor of the link sweep of DHgate; the title
\* attribute without a value is None, and None[:120] raises
DhgateAnchor(a, category) ==
    IF a.title.k = "none" THEN [exc |-> "TypeError", products |-> <<>>]
    ELSE [exc |-> "none",
          products |-> <<Product(OrElse(Take(AttrOr(a.title, a.text), NameLimit), DhgateProduct),
                                 SeeListing, DhgateLink(AttrOr(a.href, Empty)),
                                 "DHgate", category, Empty, Empty, Empty, Empty)>>]

\* lines 198-204: the loop of the link sweep; products holds what was
\* appended before an anchor raised
RECURSIVE DhgateSweep(_, _)
DhgateSweep(anchors, category) ==
    IF anchors = <<>> THEN <<>>
    ELSE LET r == DhgateAnchor(Head(anchors), category)
         IN IF r.exc # "none" THEN <<>>
            ELSE r.products \o DhgateSweep(Tail(anchors), category)

\* lines 208-234: one card of DHgate
DhgateCard(card, category) ==
    LET link == IF card.href.k = "absent" THEN Empty ELSE DhgateLink(card.href.v)
    IN IF Truthy(link)
       THEN <<Product(CardName(card, DhgateProduct), TextOr(card.price, SeeListing),
                      link, "DHgate", category, Empty, Empty,
                      TextOr(card.reviews, Empty), Empty)>>
       ELSE <<>>

\* lines 186-239: scrape_dhgate on a response
ScrapeDhgatePage(resp, category, max_items) ==
    IF resp.status # "ok" THEN <<>>
    ELSE IF resp.cards = <<>>
    THEN Slice(DhgateSweep(Slice(resp.anchors, max_items), category), max_items)
    ELSE LET seen == Slice(resp.cards, max_items)
         IN Slice(Flatten([i \in 1..Len(seen) |-> DhgateCard(seen[i], category)]), max_items)

(***************************************************************************)
(* scrape_alibaba and scrape_dhgate applied to one response.               *)
(***************************************************************************)
MaxRecords == 3

Lamp == Lit(<<"L", "a", "m", "p">>)

AlibabaAbs == Lit(<<"h", "t", "t", "p", "s", ":", "/", "/", "w", "w", "w", ".", "a", "l", "i",
                    "b", "a", "b", "a", ".", "c", "o", "m", "/", "p", "r", "o", "d", "u", "c",
                    "t", "-", "d", "e", "t", "a", "i", "l", "/", "1">>)
AlibabaProtocolRelative == Lit(<<"/", "/", "w", "w", "w", ".", "a", "l", "i", "b", "a", "b", "a",
                                 ".", "c", "o", "m", "/", "p", "r", "o", "d", "u", "c", "t", "-",
                                 "d", "e", "t", "a", "i", "l", "/", "2">>)
AlibabaRootRelative == Lit(<<"/", "p", "r", "o", "d", "u", "c", "t", "-", "d", "e", "t", "a",
                             "i", "l", "/", "3">>)
DhgateAbs == Lit(<<"h", "t", "t", "p", "s", ":", "/", "/", "w", "w", "w", ".", "d", "h", "g",
                   "a", "t", "e", ".", "c", "o", "m", "/", "p", "r", "o", "d", "u", "c", "t",
                   "/", "1">>)
DhgateProtocolRelative == Lit(<<"/", "/", "w", "w", "w", ".", "d", "h", "g", "a", "t", "e", ".",
                                "c", "o", "m", "/", "p", "r", "o", "d", "u", "c", "t", "/", "2">>)
DhgateRootRelative == Lit(<<"/", "p", "r", "o", "d", "u", "c", "t", "/", "3">>)

\* an <a> element the link sweep selects
Anchor(href, text, title) == [href |-> Some(href), text |-> text, title |-> title]

\* a card: the elements css_first finds in it
Card(has_title, title, text, href, price) ==
    [has_title |-> has_title, title |-> title, text |-> text, href |-> href,
     price |-> price, img |-> Absent, moq |-> Absent, supplier |-> Absent,
     reviews |-> Absent]

ItemKeys == {"title", "name", "subject", "price", "priceStr", "detailUrl", "href",
             "productUrl", "image", "imgUrl"}

\* a JSON object with the given members
Item(members) ==
    [k |-> "dict",
     f |-> [key \in ItemKeys |-> IF key \in DOMAIN members THEN members[key] ELSE Absent]]

NotAnObject == [k |-> "other", f |-> [key \in ItemKeys |-> Absent]]

AlibabaAnchors ==
    {Anchor(AlibabaAbs, Lamp, Absent), Anchor(AlibabaProtocolRelative, Lamp, Absent),
     Anchor(AlibabaRootRelative, Empty, Absent)}

AlibabaCards ==
    {Card(TRUE, Some(Lamp), Empty, Some(AlibabaAbs), Some(KnownPrice)),
     Card(TRUE, NoValue, Lamp, Some(AlibabaProtocolRelative), Absent),
     Card(FALSE, Absent, Empty, Some(AlibabaRootRelative), Absent),
     Card(TRUE, Some(Lamp), Empty, Absent, Some(KnownPrice))}

WellFormedItems ==
    {Item([title |-> Some(Lamp), detailUrl |-> Some(AlibabaAbs)]),
     Item([name |-> Some(Lamp), href |-> Some(AlibabaRootRelative), price |-> PriceObj(KnownPrice)]),
     Item([subject |-> Some(Lamp), productUrl |-> Some(AlibabaProtocolRelative), price |-> IntVal(2)])}

MalformedItems ==
    {Item([title |-> IntVal(5), detailUrl |-> Some(AlibabaAbs)]),
     Item([title |-> NoValue, detailUrl |-> Some(AlibabaAbs)]),
     Item([title |-> Some(Lamp), detailUrl |-> IntVal(7)]),
     Item([title |-> Some(Lamp)]),
     NotAnObject}

AlibabaItems == WellFormedItems \cup MalformedItems

DhgateAnchors ==
    {Anchor(DhgateAbs, Lamp, Absent), Anchor(DhgateProtocolRelative, Lamp, Some(Lamp)),
     Anchor(DhgateRootRelative, Empty, Some(Empty)), Anchor(DhgateAbs, Lamp, NoValue)}

DhgateCards ==
    {Card(TRUE, Some(Lamp), Empty, Some(DhgateAbs), Some(KnownPrice)),
     Card(TRUE, NoValue, Lamp, Some(DhgateProtocolRelative), Absent),
     Card(FALSE, Absent, Empty, Some(DhgateRootRelative), Absent),
     Card(TRUE, Some(Lamp), Empty, Absent, Some(KnownPrice))}

Page(status, cards, anchors, blobs) ==
    [status |-> status, cards |-> cards, anchors |-> anchors, blobs |-> blobs]

ListBlob(items) == [k |-> "list", key |-> "", items |-> items]
DictBlob(key, items) == [k |-> "dict", key |-> key, items |-> items]
InvalidBlob == [k |-> "invalid", key |-> "", items |-> <<>>]

\* the pages of Alibaba: one strategy has something to work on
AlibabaPages ==
    {Page("ok", cards, <<>>, <<>>) : cards \in SeqsUpTo(AlibabaCards, MaxRecords)}
    \cup {Page("ok", <<>>, anchors, <<>>) : anchors \in SeqsUpTo(AlibabaAnchors, MaxRecords)}
    \cup {Page("ok", <<>>, <<>>, <<ListBlob(items)>>) : items \in SeqsUpTo(AlibabaItems, MaxRecords)}
    \cup UNION {{Page("ok", <<>>, <<>>, <<DictBlob("offerList", items), ListBlob(items)>>),
                 Page("ok", <<>>, <<>>, <<DictBlob("props", items)>>),
                 Page("ok", <<>>, <<>>, <<InvalidBlob, ListBlob(items)>>),
                 Page("http_error", <<>>, <<>>, <<ListBlob(items)>>),
                 Page("network_error", <<>>, <<>>, <<ListBlob(items)>>)}
                : items \in SeqsUpTo(WellFormedItems, 1)}

DhgatePages ==
    {Page("ok", cards, <<>>, <<>>) : cards \in SeqsUpTo(DhgateCards, MaxRecords)}
    \cup {Page("ok", <<>>, anchors, <<>>) : anchors \in SeqsUpTo(DhgateAnchors, MaxRecords)}
    \cup {Page("http_error", <<>>, <<Anchor(DhgateAbs, Lamp, Absent)>>, <<>>),
          Page("network_error", <<>>, <<Anchor(DhgateAbs, Lamp, Absent)>>, <<>>)}

InitExtract ==
    /\ IdleFallback
    /\ IdleLLM
    /\ IdleScrape
    /\ IdleDigest
    /\ IdleRun
    /\ ex_site \in {"Alibaba", "DHgate"}
    /\ ex_category \in Categories
    /\ ex_resp \in (IF ex_site = "Alibaba" THEN AlibabaPages ELSE DhgatePages)
    /\ ex_pc = "called"
    /\ ex_out = <<>>

ExScrapeAlibaba ==
    /\ ex_pc = "called"
    /\ ex_site = "Alibaba"
    /\ ex_out' = ScrapeAlibabaPage(ex_resp, ex_category, AlibabaMaxItems)
    /\ ex_pc' = "returned"
    /\ UNCHANGED <<ex_site, ex_category, ex_resp, others_ex>>

ExScrapeDhgate ==
    /\ ex_pc = "called"
    /\ ex_site = "DHgate"
    /\ ex_out' = ScrapeDhgatePage(ex_resp, ex_category, DhgateMaxItems)
    /\ ex_pc' = "returned"
    /\ UNCHANGED <<ex_site, ex_category, ex_resp, others_ex>>

NextExtract ==
    \/ ExScrapeAlibaba
    \/ ExScrapeDhgate

SpecExtract == InitExtract /\ [][NextExtract]_vars

(***************************************************************************)
(* Claims about the extraction strategies.                                 *)
(***************************************************************************)
\* what the site's function returns for a page
C15_Scrape(site, page, category) ==
    IF site = "Alibaba" THEN ScrapeAlibabaPage(page, category, AlibabaMaxItems)
    ELSE ScrapeDhgatePage(page, category, DhgateMaxItems)

\* the pages that hold one record of the page each, in the page's order
C15_PagesOfOne(page) ==
    IF page.cards # <<>>
    THEN [i \in 1..Len(page.cards) |-> [page EXCEPT !.cards = <<page.cards[i]>>]]
    ELSE IF page.anchors # <<>>
    THEN [i \in 1..Len(page.anchors) |-> [page EXCEPT !.anchors = <<page.anchors[i]>>]]
    ELSE Flatten([b \in 1..Len(page.blobs) |->
            [i \in 1..Len(page.blobs[b].items) |->
                [page EXCEPT !.blobs = <<[page.blobs[b] EXCEPT !.items = <<page.blobs[b].items[i]>>]>>]]])

\* C15: in every extraction strategy a malformed record drops only itself:
\* what a page yields is what its records yield one by one, in order (a
\* malformed record yields nothing, a well-formed one its listing)
C15_MalformedDropsOnlyItself ==
    (ex_pc = "returned" /\ ex_resp.status = "ok")
        => LET ones == C15_PagesOfOne(ex_resp)
           IN ex_out = Flatten([i \in 1..Len(ones) |-> C15_Scrape(ex_site, ones[i], ex_category)])

\* the link the claim gives an href: protocol-relative ones get the scheme,
\* root-relative ones the site's origin
C16_Resolved(site, href) ==
    IF StartsWith(href, HttpPrefix) THEN href
    ELSE IF StartsWith(href, SlashSlash) THEN HttpsColon \o href
    ELSE (IF site = "Alibaba" THEN AlibabaOrigin ELSE DhgateOrigin) \o href

\* the hrefs of the records of a page
C16_Hrefs(page) ==
    {page.cards[i].href.v : i \in {j \in 1..Len(page.cards) : page.cards[j].href.k = "str"}}
    \cup {page.anchors[i].href.v : i \in 1..Len(page.anchors)}
    \cup UNION {UNION {{page.blobs[b].items[i].f[key].v :
                          key \in {x \in {"detailUrl", "href", "productUrl"} :
                                     page.blobs[b].items[i].f[x].k = "str"}}
                       : i \in 1..Len(page.blobs[b].items)}
                : b \in 1..Len(page.blobs)}

\* C16: every listing has an absolute link: the href of its record, with
\* the scheme put before a protocol-relative one and the site's origin
\* before a root-relative one, for both sites and every strategy
C16_LinksAbsolute ==
    ex_pc = "returned"
        => \A k \in 1..Len(ex_out) :
              /\ StartsWith(ex_out[k].link, HttpPrefix)
              /\ Expand(ex_out[k].link)
                    \in {Expand(C16_Resolved(ex_site, h)) : h \in C16_Hrefs(ex_resp)}

(***************************************************************************)
(* Claims about the terminal failures of run.                              *)
(***************************************************************************)
C17_BothCredentials == run_cfg.telegram_bot_token /\ run_cfg.telegram_chat_id

C17_Alert == Called("send_error_alert", FALSE, <<>>)

\* the step in which the scrape raises, and the step taken after a scrape
\* that returned no listing
C17_ScrapeRaised == run_pc = "start" /\ run_pc' = "done"
C17_ZeroListings == run_pc = "scraped" /\ run_products = <<>> /\ run_pc' # run_pc

\* C17: a scrape that raises or finds no listing ends the run: the only
\* call made is one send_error_alert when both credentials are configured
\* and none otherwise (no ranking, no digest), the exit status is 1 when
\* the scrape raised and 0 when it found nothing, and no step follows
C17_TerminalFailure ==
    [][/\ (C17_ScrapeRaised \/ C17_ZeroListings)
            => /\ run_pc' = "done"
               /\ run_calls' = IF C17_BothCredentials THEN <<C17_Alert>> ELSE <<>>
               /\ run_top' = <<>>
               /\ run_exit' = IF C17_ScrapeRaised THEN "1" ELSE "0"
       /\ run_pc # "done"]_vars

C17_Witness ==
    /\ run_pc = "done"
    /\ run_products = <<>>
    /\ run_exit = "0"
    /\ run_calls = <<C17_Alert>>

(***************************************************************************)
(* Claims about the scores of the ranked listings.                         *)
(***************************************************************************)
\* C18: every ranked listing returned by rank_products or by
\* rank_products_fallback carries a score, an integer between 1 and 100
C18_ScoresInRange ==
    /\ llm_pc = "done" =>
          \A i \in 1..Len(llm_result.out) :
              /\ llm_result.out[i].t = "int"
              /\ llm_result.out[i].score \in 1..100
    /\ fb_pc = "done" =>
          \A i \in 1..Len(fb_out) : fb_out[i].score \in 1..100

C19_Present(text) == TLen(text) > 0

C19_PriceKnown(p) == C19_Present(p.price) /\ Expand(p.price) # Expand(SeeListing)

\* the score the claim gives a listing
C19_Score(p) ==
    50 + (IF C19_PriceKnown(p) THEN 15 ELSE 0)
       + (IF C19_Present(p.orders_or_reviews) THEN 20 ELSE 0)
       + (IF C19_Present(p.image_url) THEN 5 ELSE 0)
       + (IF C19_Present(p.min_order) THEN 5 ELSE 0)
       + (IF C19_Present(p.supplier) THEN 5 ELSE 0)

C19_Reason == <<"A", "u", "t", "o", "-", "s", "c", "o", "r", "e", "d", " ", "(", "n", "o",
                " ", "A", "I", ")">>

\* C19: the fallback score of a listing is 50, plus 15 for a known price
\* (one that is there and is not "See listing"), plus 20 for orders/reviews
\* text, plus 5 each for image, minimum order and supplier; it is never
\* above 100, and the reason is always "Auto-scored (no AI)"
C19_ScoreIsSumOfBonuses ==
    fb_pc = "done" =>
        \A k \in 1..Len(fb_out) :
            /\ \E i \in 1..Len(fb_products) :
                  /\ fb_products[i].name = fb_out[k].name
                  /\ fb_out[k].score = C19_Score(fb_products[i])
            /\ fb_out[k].score <= 100
            /\ Expand(fb_out[k].reason) = C19_Reason

\* a listing with every attribute present was scored
C19_Witness ==
    /\ fb_pc = "done"
    /\ \E k \in 1..Len(fb_out) :
          /\ fb_out[k].score = 95
          /\ C19_Present(fb_out[k].supplier)
          /\ C19_Present(fb_out[k].image_url)

(***************************************************************************)
(* Claims about the shared client of scrape_all_categories.                *)
(***************************************************************************)
C20_Left == sc_pc \in {"done", "cancelled"}

C20_Merging == sc_pc \in {"release", "dedup", "done"}

\* C20: the shared client is released on every path out of
\* scrape_all_categories (return or exception), it is never released while
\* a task has a request in flight, and the results are merged only when
\* every submitted task has ended
C20_ClientScoped ==
    /\ C20_Left => sc_client = "closed"
    /\ sc_client = "closed" => \A i \in 1..Len(sc_tasks) : sc_tasks[i].state # "running"
    /\ C20_Merging => \A i \in 1..Len(sc_tasks) : sc_tasks[i].state = "done"

\* the call was cancelled while two of its tasks had a request in flight
\* and one had ended
C20_Witness ==
    /\ sc_pc = "cancelled"
    /\ sc_client = "closed"
    /\ Len(sc_tasks) >= 3
    /\ \E i \in 1..Len(sc_tasks) : sc_tasks[i].result.exc /\ sc_tasks[i].result.list = <<>>
    /\ \E i \in 1..Len(sc_tasks) : sc_tasks[i].result.list # <<>>

(***************************************************************************)
(* Claims about the delay between the submissions.                         *)
(***************************************************************************)
\* task i starts in this step: its request is sent
C21_Starts(i) ==
    /\ i \in 1..Len(sc_tasks)
    /\ sc_tasks[i].state = "created"
    /\ sc_tasks'[i].state = "running"

\* C21: the requests of a keyword are not started while the delay after a
\* submission is running, and the requests of two different keywords are
\* never started at the same point of the run
C21_StartsSeparatedByDelay ==
    [][/\ \A i \in 1..Len(sc_tasks) : C21_Starts(i) => sc_pc # "sleep"
       /\ \A i, j \in 1..Len(sc_tasks) :
             (C21_Starts(i) /\ C21_Starts(j)) => sc_tasks[i].kw = sc_tasks[j].kw]_vars

(***************************************************************************)
(* Claims about the order and the selection of rank_products_fallback.     *)
(***************************************************************************)
\* the input position of the k-th listing of the output
C22_Idx(k) == CHOOSE i \in 1..Len(fb_products) : fb_products[i].name = fb_out[k].name

\* input i comes before input j in the order of non-increasing score with
\* equal scores in input order
C22_Before(i, j) ==
    \/ C19_Score(fb_products[i]) > C19_Score(fb_products[j])
    \/ C19_Score(fb_products[i]) = C19_Score(fb_products[j]) /\ i < j

C22_Cap == Max(1, (fb_top_n \div DistinctCategories(fb_products)) + 1)

\* the positions of the output that were selected before input j was
\* considered
C22_SelectedBefore(j) == {k \in 1..Len(fb_out) : C22_Before(C22_Idx(k), j)}

\* C22: the output of rank_products_fallback is in the order of
\* non-increasing score with equal scores in input order, and a listing is
\* left out only if, when it was considered, its category had reached the
\* cap or top_n listings had been selected
C22_SortedGreedy ==
    fb_pc = "done" =>
        /\ \A k \in 1..Len(fb_out) : \E i \in 1..Len(fb_products) : fb_products[i].name = fb_out[k].name
        /\ \A k, l \in 1..Len(fb_out) : k < l => C22_Before(C22_Idx(k), C22_Idx(l))
        /\ \A j \in 1..Len(fb_products) :
              (\A k \in 1..Len(fb_out) : C22_Idx(k) # j)
                  => \/ Cardinality(C22_SelectedBefore(j)) >= fb_top_n
                     \/ Cardinality({k \in C22_SelectedBefore(j) :
                                       fb_out[k].category = fb_products[j].category}) >= C22_Cap

\* the third listing of a category is left out for the cap, and a later
\* listing of the same score is selected
C22_Witness ==
    /\ fb_pc = "done"
    /\ Len(fb_products) = 4
    /\ fb_top_n = 3
    /\ Len(fb_out) = 3
    /\ \A i \in 1..4 : C19_Score(fb_products[i]) = C19_Score(fb_products[1])
    /\ <<C22_Idx(1), C22_Idx(2), C22_Idx(3)>> = <<1, 2, 4>>
    /\ fb_products[3].category = fb_products[1].category

(***************************************************************************)
(* Claims about the content of a split digest.                             *)
(***************************************************************************)
C23_Case == dg_pc = "done" /\ dg_fn = "send_daily_digest" /\ dg_products # <<>>

\* the segments (header 0, entry i, footer -1) of the m-th message
C23_Segs(m) == {dg_msgs[m][k].seg : k \in 1..Len(dg_msgs[m])}

\* C23: the messages handed to _send_message for a non-empty digest are,
\* one after the other, the header, every listing's entry once and in
\* ranked order, and the footer; the header is in the first message only
\* and starts it, the footer is in the last one only and ends it, and no
\* entry has parts in two messages
C23_EntriesOnceInOrder ==
    C23_Case =>
        LET n == Len(dg_products)
            last == Len(dg_msgs)
            header == Header(dg_label, n)
            footer == Footer(dg_label)
        IN /\ dg_sent = last
           /\ Flatten(Handed) = header \o JoinRange(Entries(dg_products), 1, n) \o footer
           /\ SubSeq(dg_msgs[1], 1, Len(header)) = header
           /\ SubSeq(dg_msgs[last], Len(dg_msgs[last]) - Len(footer) + 1, Len(dg_msgs[last])) = footer
           /\ \A m \in 2..last : 0 \notin C23_Segs(m)
           /\ \A m \in 1..(last - 1) : -1 \notin C23_Segs(m)
           /\ \A m1, m2 \in 1..last :
                 m1 # m2 => (C23_Segs(m1) \cap C23_Segs(m2)) \cap 1..n = {}

\* a digest of two messages: header and first entry, then second entry and
\* footer
C23_Witness ==
    /\ C23_Case
    /\ Len(dg_products) = 2
    /\ dg_sent = 2
    /\ C23_Segs(1) = {0, 1}
    /\ C23_Segs(2) = {2, -1}

====
